---- MODULE Spec2Model ----
(***************************************************************************)
(* A model of the circuit gadgets of fil-halo2-gadgets: the selection chip *)
(* (select.rs), the u32 decomposition, packing and strip-bits chips        *)
(* (uint32.rs) and the SHA-256 table16 compression orchestrator            *)
(* (sha256/table16/compression.rs, sha256/table16/util.rs).                *)
(*                                                                         *)
(* Conventions.  A Rust array or Vec is a sequence: index i of the source  *)
(* is position i + 1 here.  A [bool; N] is a sequence of BOOLEAN, little   *)
(* end first.  TLC's integers are 32-bit signed, so an unsigned integer of *)
(* 32 bits or more is held as the little-endian sequence of its 16-bit     *)
(* limbs: a u32 is <<lo, hi>> with value lo + 2^16 * hi (the form of       *)
(* RoundWordDense), a u64 has four limbs, a 256-bit representation sixteen.*)
(* Each chip has one record variable holding its cells and the position of *)
(* the call in progress; each chip has its own specification.              *)
(***************************************************************************)
EXTENDS Integers, Sequences, FiniteSets, TLC

VARIABLES sel, spr, u32c, sha, hsh, utl, win

vars == <<sel, spr, u32c, sha, hsh, utl, win>>

(***************************************************************************)
(* Bounds of the model.                                                    *)
(***************************************************************************)
\* select: the largest number of index bits (arrays of up to 2^MaxIndexBits).
MaxIndexBits == 3
\* spread sums: the width in bits of the operands.
SpreadWidth == 3
\* u32 chips: the number of sample limb values the field elements are built of.
SampleCount == 4

(***************************************************************************)
(* Bit arrays and wide unsigned integers (crate::boolean, util.rs).        *)
(***************************************************************************)
\* All sequences over S of length n.
SeqsOfLen(S, n) == [1..n -> S]

\* The value of little-endian bits that fit one limb (test_select_chip builds
\* the index bits as index >> i & 1).
RECURSIVE BitsToIndex(_)
BitsToIndex(bits) ==
    IF bits = <<>> THEN 0
    ELSE (IF Head(bits) THEN 1 ELSE 0) + 2 * BitsToIndex(Tail(bits))

\* The radix of a limb: 2^16.
Radix == 65536

Min(a, b) == IF a < b THEN a ELSE b

\* lebs2ip: the unsigned integer of little-endian bits, as 16-bit limbs.
lebs2ip(bits) ==
    LET n == (Len(bits) + 15) \div 16
    IN SubSeq([k \in 1..n |->
                  BitsToIndex(SubSeq(bits, 16 * (k - 1) + 1, Min(16 * k, Len(bits))))],
              1, n)

\* i2lebsp::<n>: the n low little-endian bits of an unsigned integer.
i2lebsp(w, n) ==
    SubSeq([p \in 1..n |->
               (w[((p - 1) \div 16) + 1] \div (2 ^ ((p - 1) % 16))) % 2 = 1],
           1, n)

\* a + b on unsigned integers of equal width; the last limb of the result is
\* the carry out of the width.
RECURSIVE AddLimbs(_, _, _)
AddLimbs(a, b, carry) ==
    IF a = <<>> THEN <<carry>>
    ELSE LET s == Head(a) + Head(b) + carry
         IN <<s % Radix>> \o AddLimbs(Tail(a), Tail(b), s \div Radix)

\* The sum of a non-empty sequence of unsigned integers of equal width, with
\* the carries out of the width added up in the last limb.
RECURSIVE SumWide(_)
SumWide(ws) ==
    IF Len(ws) = 1 THEN Append(ws[1], 0)
    ELSE LET rest == SumWide(Tail(ws))
             n == Len(ws[1])
             s == AddLimbs(ws[1], SubSeq(rest, 1, n), 0)
         IN [s EXCEPT ![n + 1] = s[n + 1] + rest[n + 1]]

\* What a sum returned by SumWide holds above its low `width` bits: 0 when
\* the sum fits the width.
WideOverflow(total, width) ==
    LET limbs == (width + 15) \div 16
    IN IF width % 16 = 0 THEN total[limbs + 1]
       ELSE total[limbs + 1] * (2 ^ (16 - (width % 16)))
            + (total[limbs] \div (2 ^ (width % 16)))

\* Returns even bits in a bit-array: even_bits[idx] = bits[idx * 2].
even_bits_unstrided(bits) == SubSeq(bits, 1, Len(bits) \div 2)
even_bits_shifted(bits) ==
    SubSeq([idx \in 1..(Len(bits) \div 2) |-> bits[2 * idx]], 1, Len(bits) \div 2)
even_bits(bits) ==
    SubSeq([idx \in 1..(Len(bits) \div 2) |-> bits[2 * (idx - 1) + 1]],
           1, Len(bits) \div 2)

\* Returns odd bits in a bit-array: odd_bits[idx] = bits[idx * 2 + 1].
odd_bits_from_even(bits) ==
    SubSeq([idx \in 1..(Len(bits) \div 2) |-> bits[2 * (idx - 1) + 1]],
           1, Len(bits) \div 2)
odd_bits(bits) ==
    SubSeq([idx \in 1..(Len(bits) \div 2) |-> bits[2 * (idx - 1) + 2]],
           1, Len(bits) \div 2)

\* The spread encoding: bit i of the value at position 2i, 0 at odd positions.
spread(bits) ==
    SubSeq([p \in 1..(2 * Len(bits)) |->
               IF p % 2 = 1 THEN bits[(p + 1) \div 2] ELSE FALSE],
           1, 2 * Len(bits))

(***************************************************************************)
(* Sums of spread encodings (xor_upper_sigma and the Ch / Maj witnesses):  *)
(* the operands' spread forms are added as integers and the sum is split   *)
(* into its even and its odd bits.                                         *)
(***************************************************************************)
SpreadIdle ==
    [pc |-> "idle", ops |-> <<>>, sum |-> <<>>, overflow |-> 0,
     even |-> <<>>, odd |-> <<>>, gate |-> "", words |-> <<>>]

SpreadInit ==
    \E n \in 2..3 :
        \E ops \in SeqsOfLen(SeqsOfLen(BOOLEAN, SpreadWidth), n) :
            spr = [SpreadIdle EXCEPT !.pc = "inputs", !.ops = ops]

\* lebs2ip of each spread operand, the integer sum, i2lebsp of the sum.
SpreadSum ==
    /\ spr.pc = "inputs"
    /\ LET total == SumWide([k \in 1..Len(spr.ops) |-> lebs2ip(spread(spr.ops[k]))])
           width == 2 * SpreadWidth
       IN spr' = [spr EXCEPT !.pc = "summed",
                             !.sum = i2lebsp(total, width),
                             !.overflow = WideOverflow(total, width)]
    /\ UNCHANGED <<sel, u32c, sha, hsh, utl, win>>

\* even_bits and odd_bits of the sum.
SpreadSplit ==
    /\ spr.pc = "summed"
    /\ spr' = [spr EXCEPT !.pc = "split", !.even = even_bits(spr.sum),
                          !.odd = odd_bits(spr.sum)]
    /\ UNCHANGED <<sel, u32c, sha, hsh, utl, win>>

SpreadNext ==
    \/ SpreadSum
    \/ SpreadSplit

(***************************************************************************)
(* The u32 decomposition, packing and strip-bits chips (uint32.rs).        *)
(* A field element is held as the sixteen 16-bit limbs of its canonical    *)
(* value; to_repr turns it into 32 little-endian bytes.                    *)
(***************************************************************************)

\* The modulus of pasta::Fp, the field of test_u32_chips:
\* 0x40000000000000000000000000000000224698fc094cf91b992d30ed00000001.
MODULUS ==
    <<\h0001, \h0000, \h30ed, \h992d, \hf91b, \h094c, \h98fc, \h2246,
      0, 0, 0, 0, 0, 0, 0, \h4000>>

\* Fp::zero() - Fp::one(), the largest field element.
MODULUS_MINUS_ONE == [MODULUS EXCEPT ![1] = 0]

\* a < b for unsigned integers of equal width.
RECURSIVE WideLess(_, _)
WideLess(a, b) ==
    IF a = <<>> THEN FALSE
    ELSE LET n == Len(a)
         IN IF a[n] # b[n] THEN a[n] < b[n]
            ELSE WideLess(SubSeq(a, 1, n - 1), SubSeq(b, 1, n - 1))

\* PrimeField::to_repr: the canonical value as 32 little-endian bytes.
to_repr(f) ==
    SubSeq([j \in 1..32 |-> IF j % 2 = 1 THEN f[(j + 1) \div 2] % 256
                                         ELSE f[j \div 2] \div 256],
           1, 32)

\* PrimeField::from_repr_vartime: the field element of 32 little-endian bytes,
\* or None when the bytes are not below the modulus.
None == <<"None">>
from_repr_unchecked(repr) ==
    SubSeq([k \in 1..16 |-> repr[2 * k - 1] + 256 * repr[2 * k]], 1, 16)
from_repr_vartime(repr) ==
    LET w == SubSeq([k \in 1..16 |-> repr[2 * k - 1] + 256 * repr[2 * k]], 1, 16)
    IN IF WideLess(w, MODULUS) THEN w ELSE None

\* u32::from_le_bytes and u32::to_le_bytes.
from_be_bytes(b) == <<b[4] + 256 * b[3], b[2] + 256 * b[1]>>
from_le_bytes(b) == <<b[1] + 256 * b[2], b[3] + 256 * b[4]>>
to_le_bytes(u) == <<u[1] % 256, u[1] \div 256, u[2] % 256, u[2] \div 256>>

\* le_bytes[i * 4..(i + 1) * 4]
LimbBytesReversed(le_bytes, i) == SubSeq(le_bytes, (7 - i) * 4 + 1, (8 - i) * 4)
LimbBytes(le_bytes, i) == SubSeq(le_bytes, i * 4 + 1, (i + 1) * 4)

\* AssignedU32::assign witnesses a u32 as Bits<32>; value_u32 and u32::from
\* read the bits back as a u32.
AssignU32(u) == i2lebsp(u, 32)
value_u32(bits) == lebs2ip(bits)

\* The field element zero.
ZeroLimbs == [k \in 1..16 |-> 0]

\* a - b on unsigned integers of equal width, for a >= b.
RECURSIVE SubLimbs(_, _, _)
SubLimbs(a, b, borrow) ==
    IF a = <<>> THEN <<>>
    ELSE LET d == Head(a) - Head(b) - borrow
         IN <<(d + Radix) % Radix>>
                \o SubLimbs(Tail(a), Tail(b), IF d < 0 THEN 1 ELSE 0)

\* The field element of an integer below 2^256.
RECURSIVE FieldReduce(_)
FieldReduce(w) ==
    IF WideLess(w, MODULUS) THEN w ELSE FieldReduce(SubLimbs(w, MODULUS, 0))

\* Field addition, and the product of a field element with the constant 2^j
\* where the integer product is below 2^256.
FieldAdd(a, b) == FieldReduce(SubSeq(AddLimbs(a, b, 0), 1, 16))
FieldMulPow2(w, j) ==
    LET q == j \div 16
        m == 2 ^ (j % 16)
        at(k) == IF k >= 1 THEN w[k] * m ELSE 0
    IN FieldReduce(SubSeq([k \in 1..16 |->
                              (at(k - q) % Radix) + (at(k - q - 1) \div Radix)],
                          1, 16))

\* The sum in the field of the terms of a gate expression.
RECURSIVE FieldSum(_)
FieldSum(terms) ==
    IF Len(terms) = 1 THEN terms[1]
    ELSE LET half == Len(terms) \div 2
         IN FieldAdd(FieldSum(SubSeq(terms, 1, half)),
                     FieldSum(SubSeq(terms, half + 1, Len(terms))))

\* The field element in a cell that holds a u32 (Bits<32>) and in a cell that
\* holds a Bit.
FieldOfU32(u) == u \o [k \in 1..14 |-> 0]
FieldOfBit(b) == [ZeroLimbs EXCEPT ![1] = IF b THEN 1 ELSE 0]

\* A cell nothing was assigned to.
Unassigned == <<>>

\* byte >> i & 1 == 1
ByteBitFromTop(byte, i) == (byte \div (2 ^ (7 - i))) % 2 = 1
ByteBit(byte, i) == (byte \div (2 ^ i)) % 2 = 1

\* assign_u32s, the row of the value: the eight limbs beside the value cell,
\* s_field_into_u32s enabled.
ValueRow(offset, val, u32s) ==
    [offset |-> offset, value |-> val,
     limbs |-> SubSeq([i \in 1..8 |-> FieldOfU32(value_u32(u32s[i]))], 1, 8),
     s_field_into_u32s |-> TRUE, s_u32_into_bits |-> FALSE]

\* assign_u32s, the rows of one limb: the limb copied into the value column of
\* the first row with s_u32_into_bits enabled, and one row of 8 bits per byte.
LimbBitRows(offset, limb) ==
    LET bytes == to_le_bytes(value_u32(limb))
    IN SubSeq([byte_index \in 1..4 |->
                  [offset |-> offset + byte_index - 1,
                   value |-> IF byte_index = 1 THEN FieldOfU32(value_u32(limb))
                             ELSE Unassigned,
                   limbs |-> SubSeq([i \in 1..8 |->
                                FieldOfBit(ByteBit(bytes[byte_index], i - 1))], 1, 8),
                   s_field_into_u32s |-> FALSE,
                   s_u32_into_bits |-> byte_index = 1]],
              1, 4)

\* for (limb_index, limb) in u32s.iter().enumerate(), offset advancing by one
\* per byte.
RECURSIVE AssignBitRows(_, _)
AssignBitRows(offset, u32s) ==
    IF u32s = <<>> THEN <<>>
    ELSE LimbBitRows(offset, Head(u32s)) \o AssignBitRows(offset + 4, Tail(u32s))

\* The field_into_u32s gate on a row: limb_0 plus the limbs weighted by the
\* powers of 2^32, less the value, is zero where the selector is set.
field_into_u32s(row) ==
    row.s_field_into_u32s =>
        FieldSum(SubSeq([i \in 1..8 |-> FieldMulPow2(row.limbs[i], 32 * (i - 1))],
                        1, 8)) = row.value

\* The u32_into_bits gate on the row at index r: the 32 cells of the limb
\* columns of this and the next three rows are bits, and their sum weighted
\* by the powers of two is the value cell of this row.
u32_into_bits(rows, r) ==
    LET bits == SubSeq([j \in 1..32 |-> rows[r + ((j - 1) \div 8)].limbs[((j - 1) % 8) + 1]],
                       1, 32)
    IN rows[r].s_u32_into_bits =>
           /\ \A j \in 1..32 : bits[j] \in {FieldOfBit(FALSE), FieldOfBit(TRUE)}
           /\ FieldSum(SubSeq([j \in 1..32 |-> FieldMulPow2(bits[j], j - 1)], 1, 32))
                  = rows[r].value

\* val & mask on u32s.
U32And(a, b) ==
    LET x == i2lebsp(a, 32)
        y == i2lebsp(b, 32)
    IN lebs2ip(SubSeq([p \in 1..32 |-> x[p] /\ y[p]], 1, 32))

\* mask = (1 << 30) - 1 = 0b00111111_11111111_11111111_11111111
STRIP_MASK_31 == <<\hFFFF, \h7FFF>>
STRIP_MASK == <<\hFFFF, \h3FFF>>

\* The field elements the chips are run on: 0, 1, the two largest elements,
\* elements with one non-zero 16-bit limb and elements whose low u32 is built
\* of two sample limbs.
SampleLimbs == {(j * 21845) % Radix : j \in 1..SampleCount}
FieldInputs ==
    LET single == {[ZeroLimbs EXCEPT ![k] = c] : k \in 1..16, c \in SampleLimbs}
        low == {[ZeroLimbs EXCEPT ![1] = c, ![2] = d] : c, d \in SampleLimbs}
        special == {ZeroLimbs, [ZeroLimbs EXCEPT ![1] = 1], MODULUS_MINUS_ONE,
                    [MODULUS EXCEPT ![1] = \hFFFF, ![2] = \hFFFF, ![3] = \h30ec]}
    IN {w \in single \cup low \cup special : WideLess(w, MODULUS)}

U32Idle ==
    [pc |-> "idle", value |-> <<>>, u32s |-> <<>>, packed |-> <<>>,
     uint32 |-> <<>>, bits |-> <<>>, stripped |-> <<>>,
     binary_decomp |-> FALSE, rows |-> <<>>]

\* Limbs a caller hands to pack directly: those of field elements and those of
\* 256-bit values that are not below the modulus.
LimbInputs ==
    LET over == {[MODULUS EXCEPT ![k] = c] : k \in 1..16, c \in SampleLimbs}
        wide == {MODULUS, [k \in 1..16 |-> \hFFFF], [ZeroLimbs EXCEPT ![16] = \h8000]}
    IN FieldInputs \cup {w \in over \cup wide : ~WideLess(w, MODULUS)}

\* pack(limbs) called on eight assigned u32s.
PackInit ==
    \E w \in LimbInputs :
        u32c = [U32Idle EXCEPT
                   !.pc = "limbs",
                   !.u32s = [i \in 1..8 |-> AssignU32(<<w[2 * i - 1], w[2 * i]>>)]]

\* A chip configured with configure or with configure_with_binary_decomp, and
\* the value to decompose.
U32Init ==
    \E v \in FieldInputs, binary_decomp \in BOOLEAN :
        u32c = [U32Idle EXCEPT !.pc = "witness", !.value = v,
                               !.binary_decomp = binary_decomp]

\* witness_decompose -> assign_u32s: the eight limb cells of the value's row
\* at offset 0 and, with the binary decomposition, the bit rows from offset 1.
WitnessDecompose ==
    /\ u32c.pc = "witness"
    /\ LET le_bytes == to_repr(u32c.value)
           u32s == SubSeq([i \in 1..8 |->
                       AssignU32(from_le_bytes(LimbBytes(le_bytes, i - 1)))], 1, 8)
       IN u32c' = [u32c EXCEPT
              !.pc = "decomposed",
              !.u32s = u32s,
              !.rows = <<ValueRow(0, u32c.value, u32s)>>
                           \o IF u32c.binary_decomp THEN AssignBitRows(1, u32s)
                              ELSE <<>>]
    /\ UNCHANGED <<sel, spr, sha, hsh, utl, win>>

\* The bytes pack writes into packed_repr: limb i at [i * 4..(i + 1) * 4].
RECURSIVE PackedRepr(_)
PackedRepr(limbs) ==
    IF limbs = <<>> THEN <<>>
    ELSE to_le_bytes(value_u32(Head(limbs))) \o PackedRepr(Tail(limbs))

\* pack: F::from_repr_vartime(repr).expect("limbs are invalid repr").
Pack ==
    /\ u32c.pc \in {"decomposed", "limbs"}
    /\ LET packed == from_repr_vartime(PackedRepr(u32c.u32s))
       IN IF packed = None
          THEN u32c' = [u32c EXCEPT !.pc = "panicked"]
          ELSE u32c' = [u32c EXCEPT !.pc = "packed", !.packed = packed]
    /\ UNCHANGED <<sel, spr, sha, hsh, utl, win>>

\* strip_bits on one of the limb cells (the test strips u32s[0]): the 32 bit
\* cells of the u32 and the stripped cell val & mask.
StripBits ==
    /\ u32c.pc = "packed"
    /\ \E i \in 1..8 :
          LET val == value_u32(u32c.u32s[i])
          IN u32c' = [u32c EXCEPT
                 !.pc = "stripped",
                 !.uint32 = u32c.u32s[i],
                 !.bits = i2lebsp(val, 32),
                 !.stripped = AssignU32(U32And(val, STRIP_MASK))]
    /\ UNCHANGED <<sel, spr, sha, hsh, utl, win>>

U32Next ==
    \/ WitnessDecompose
    \/ Pack
    \/ StripBits

PackNext ==
    \/ Pack
    \/ StripBits

(***************************************************************************)
(* The constraints of the strip-bits region (StripBitsChip), against a     *)
(* prover who chooses the assignment of the bit cells and of the stripped  *)
(* cell.                                                                   *)
(***************************************************************************)

\* The field element of a small integer.
FieldOfInt(n) == [ZeroLimbs EXCEPT ![1] = n]

\* The gate "u32_strip_bits" on the region: the 32 bit cells weighted by the
\* powers of two sum to the u32 cell ("32-bit packing") and the first 30 of
\* them to the cell below it ("30-bit packing").
u32_strip_bits(cell_u32, cell_u30, cells) ==
    LET term(j) == FieldMulPow2(cells[j], j - 1)
        expr_u30 == FieldSum(SubSeq([j \in 1..30 |-> term(j)], 1, 30))
        expr_u32 == FieldAdd(FieldAdd(expr_u30, term(31)), term(32))
    IN /\ expr_u32 = cell_u32
       /\ expr_u30 = cell_u30

\* The u32 cells strip_bits is called on, each <<lo, hi>>.
StripInputs ==
    {<<0, 0>>, <<1, 0>>, <<0, \h4000>>, <<0, \h8000>>, <<1, \hC000>>,
     <<\hFFFF, \hFFFF>>, <<\hFFFF, \h3FFF>>, <<\he667, \h6a09>>,
     <<\h5555, \h5555>>, <<\hAAAA, \hAAAA>>}

StripInit ==
    \E val \in StripInputs :
        u32c = [U32Idle EXCEPT !.pc = "strip_bits", !.uint32 = AssignU32(val)]

\* The region of strip_bits as a prover assigns it: the u32 cell is tied to
\* the input by the copy constraint; the 32 bit cells are the binary digits
\* of the u32, or the digits with the weight of one digit moved into the
\* cell below it, or the digits with one of them changed; the stripped cell
\* is val & mask or the sum of the first 30 bit cells.  The assignment is
\* kept when the gate holds on it.
ProverStripBits ==
    /\ u32c.pc = "strip_bits"
    /\ LET val == value_u32(u32c.uint32)
           le_bits == SubSeq([i \in 1..32 |-> IF u32c.uint32[i] THEN 1 ELSE 0], 1, 32)
           moved(j) == [le_bits EXCEPT ![j] = le_bits[j] + 2 * le_bits[j + 1],
                                       ![j + 1] = 0]
           changed(j) == [le_bits EXCEPT ![j] = 1 - le_bits[j]]
           sum_u30(cells) ==
               FieldSum(SubSeq([j \in 1..30 |-> FieldMulPow2(cells[j], j - 1)], 1, 30))
       IN \E digits \in {le_bits} \cup {moved(j) : j \in 1..31}
                                  \cup {changed(j) : j \in 1..32} :
             LET cells == SubSeq([j \in 1..32 |-> FieldOfInt(digits[j])], 1, 32)
             IN \E stripped \in {FieldOfU32(U32And(val, STRIP_MASK)), sum_u30(cells)} :
                   /\ u32_strip_bits(FieldOfU32(val), stripped, cells)
                   /\ u32c' = [u32c EXCEPT !.pc = "stripped", !.bits = cells,
                                           !.stripped = stripped]
    /\ UNCHANGED <<sel, spr, sha, hsh, utl, win>>

(***************************************************************************)
(* The selection chip (select.rs).                                         *)
(***************************************************************************)

\* The arrays the chip is run on: arr[i] = Fp::from(i) as in the test, and a
\* second family with other, pairwise distinct, values.
TestArrays(len) ==
    { [p \in 1..len |-> p - 1], [p \in 1..len |-> 10 + 3 * (len - p)] }

\* The bit of pass i: index_bits.iter().rev().enumerate().
PassBitForward(index_bits, i) == index_bits[i + 1]
PassBit(index_bits, i) == index_bits[Len(index_bits) - i]

\* The witness of the out cell of one gate row.
PickSwapped(bit, x_0, x_1) == IF bit THEN x_0 ELSE x_1
Pick(bit, x_0, x_1) == IF bit THEN x_1 ELSE x_0

SelectIdle ==
    [pc |-> "idle", arr |-> <<>>, index_bits |-> <<>>, work |-> <<>>, i |-> 0,
     j |-> 0, half |-> 0, out |-> <<>>, offset |-> 0, rows |-> <<>>, ret |-> 0,
     region |-> FALSE, runs |-> <<>>]

SelectInit ==
    \E len \in 1..(2 ^ MaxIndexBits), num_bits \in 0..MaxIndexBits :
        \E a \in TestArrays(len), bits \in SeqsOfLen(BOOLEAN, num_bits) :
            sel = [SelectIdle EXCEPT !.pc = "call", !.arr = a, !.index_bits = bits]

\* What assert_eq!(arr.len(), 1 << num_bits) demands.
ArrLenAtLeast(arr_len, num_bits) == arr_len >= 2 ^ num_bits
ArrLenMatches(arr_len, num_bits) == arr_len = 2 ^ num_bits

\* offset += 1.
OffsetSkipped(offset) == offset + 2
OffsetNext(offset) == offset + 1

\* select(): assert_eq!(arr.len(), 1 << num_bits), then assign_region and its
\* closure, which starts with offset = 0 and its own copy of arr.
SelectCall ==
    /\ sel.pc = "call"
    /\ IF ArrLenMatches(Len(sel.arr), Len(sel.index_bits))
       THEN sel' = [sel EXCEPT !.pc = "for", !.offset = 0, !.work = sel.arr,
                               !.i = 0, !.rows = <<>>, !.region = TRUE]
       ELSE sel' = [sel EXCEPT !.pc = "panicked"]
    /\ UNCHANGED <<spr, u32c, sha, hsh, utl, win>>

\* The head of the for loop over the index bits: half = arr.len() / 2.
SelectPass ==
    /\ sel.pc = "for"
    /\ sel.i < Len(sel.index_bits)
    /\ sel' = [sel EXCEPT !.pc = "map", !.half = Len(sel.work) \div 2,
                          !.j = 0, !.out = <<>>]
    /\ UNCHANGED <<spr, u32c, sha, hsh, utl, win>>

\* The rows of the region after the cells of a row are assigned at its offset.
AssignRow(rows, row) ==
    IF row.offset < Len(rows) THEN [rows EXCEPT ![row.offset + 1] = row]
    ELSE Append(rows, row)

\* One call of the map closure: one gate row at the current offset.
SelectPickRow ==
    /\ sel.pc = "map"
    /\ sel.j < sel.half
    /\ LET bit == PassBit(sel.index_bits, sel.i)
           x_0 == sel.work[sel.j + 1]
           x_1 == sel.work[sel.half + sel.j + 1]
           out == Pick(bit, x_0, x_1)
           row == [offset |-> sel.offset, s_pick |-> TRUE, bit |-> bit,
                   x_0 |-> x_0, x_1 |-> x_1, out |-> out]
       IN sel' = [sel EXCEPT !.rows = AssignRow(sel.rows, row),
                             !.out = Append(sel.out, out),
                             !.offset = OffsetNext(sel.offset),
                             !.j = sel.j + 1]
    /\ UNCHANGED <<spr, u32c, sha, hsh, utl, win>>

\* collect(): the outputs of the pass become arr.
SelectCollect ==
    /\ sel.pc = "map"
    /\ sel.j = sel.half
    /\ sel' = [sel EXCEPT !.pc = "for", !.work = sel.out, !.i = sel.i + 1]
    /\ UNCHANGED <<spr, u32c, sha, hsh, utl, win>>

\* After the loop: assert_eq!(arr.len(), 1); Ok(arr[0].clone()).
SelectReturn ==
    /\ sel.pc = "for"
    /\ sel.i = Len(sel.index_bits)
    /\ IF Len(sel.work) = 1
       THEN sel' = [sel EXCEPT !.pc = "done", !.ret = sel.work[1]]
       ELSE sel' = [sel EXCEPT !.pc = "panicked"]
    /\ UNCHANGED <<spr, u32c, sha, hsh, utl, win>>

SelectNext ==
    \/ SelectCall
    \/ SelectPass
    \/ SelectPickRow
    \/ SelectCollect
    \/ SelectReturn

(***************************************************************************)
(* The constraints select emits, against a prover who chooses the          *)
(* assignment.  The cells hold field elements; the ones used here are      *)
(* integers far smaller than the modulus in absolute value, so that an     *)
(* equation between them holds in the field exactly when it holds for the  *)
(* integers.                                                               *)
(***************************************************************************)

\* The field elements a prover puts into the cells of the index bits, which
\* select copies into its bit column; no gate of the chip constrains them.
BitCellValues == {0, 1, 2}

\* utilities::ternary(a, b, c): b if a is 1, c if a is 0.
ternary(a, b, c) == c + a * (b - c)

\* The gate "pick from pair" on a row: s_pick * (out - ternary(bit, x_1, x_0)).
PickGate(row) ==
    (IF row.s_pick THEN 1 ELSE 0) * (row.out - ternary(row.bit, row.x_1, row.x_0)) = 0

ProverInit ==
    \E num_bits \in 0..MaxIndexBits :
        \E a \in TestArrays(2 ^ num_bits), bits \in SeqsOfLen(BitCellValues, num_bits) :
            sel = [SelectIdle EXCEPT !.pc = "call", !.arr = a, !.index_bits = bits]

\* One gate row as a prover assigns it: the bit, x_0 and x_1 cells are tied
\* to their sources by the copy constraints, the out cell is free; the row is
\* kept when the gate holds on it.
ProverPickRow ==
    /\ sel.pc = "map"
    /\ sel.j < sel.half
    /\ LET bit == PassBit(sel.index_bits, sel.i)
           x_0 == sel.work[sel.j + 1]
           x_1 == sel.work[sel.half + sel.j + 1]
       IN \E out \in {x_0, x_1, x_0 + x_1, (2 * x_1) - x_0} :
             LET row == [offset |-> sel.offset, s_pick |-> TRUE, bit |-> bit,
                         x_0 |-> x_0, x_1 |-> x_1, out |-> out]
             IN /\ PickGate(row)
                /\ sel' = [sel EXCEPT !.rows = Append(sel.rows, row),
                                      !.out = Append(sel.out, out),
                                      !.offset = OffsetNext(sel.offset),
                                      !.j = sel.j + 1]
    /\ UNCHANGED <<spr, u32c, sha, hsh, utl, win>>

ProverNext ==
    \/ SelectCall
    \/ SelectPass
    \/ ProverPickRow
    \/ SelectCollect
    \/ SelectReturn

(***************************************************************************)
(* SHA-256 compression (sha256/table16/compression.rs).  The round         *)
(* assignment, the initialization and the digest assignment live in        *)
(* submodules of compression.rs (subregion_main, subregion_initial,        *)
(* subregion_digest), the constants in the parent module.                  *)
(***************************************************************************)

\* A 32-bit word written as its high and its low 16-bit half.
u32(hi, lo) == <<lo, hi>>

\* The number of rounds, the length of w_halves.
ROUNDS == 64

\* The fixed initialization vector of SHA-256.
IV ==
    << u32(\h6a09, \he667), u32(\hbb67, \hae85), u32(\h3c6e, \hf372),
       u32(\ha54f, \hf53a), u32(\h510e, \h527f), u32(\h9b05, \h688c),
       u32(\h1f83, \hd9ab), u32(\h5be0, \hcd19) >>

\* The 64 round constants K_t of SHA-256.
ROUND_CONSTANTS ==
    << u32(\h428a, \h2f98), u32(\h7137, \h4491), u32(\hb5c0, \hfbcf),
       u32(\he9b5, \hdba5), u32(\h3956, \hc25b), u32(\h59f1, \h11f1),
       u32(\h923f, \h82a4), u32(\hab1c, \h5ed5), u32(\hd807, \haa98),
       u32(\h1283, \h5b01), u32(\h2431, \h85be), u32(\h550c, \h7dc3),
       u32(\h72be, \h5d74), u32(\h80de, \hb1fe), u32(\h9bdc, \h06a7),
       u32(\hc19b, \hf174), u32(\he49b, \h69c1), u32(\hefbe, \h4786),
       u32(\h0fc1, \h9dc6), u32(\h240c, \ha1cc), u32(\h2de9, \h2c6f),
       u32(\h4a74, \h84aa), u32(\h5cb0, \ha9dc), u32(\h76f9, \h88da),
       u32(\h983e, \h5152), u32(\ha831, \hc66d), u32(\hb003, \h27c8),
       u32(\hbf59, \h7fc7), u32(\hc6e0, \h0bf3), u32(\hd5a7, \h9147),
       u32(\h06ca, \h6351), u32(\h1429, \h2967), u32(\h27b7, \h0a85),
       u32(\h2e1b, \h2138), u32(\h4d2c, \h6dfc), u32(\h5338, \h0d13),
       u32(\h650a, \h7354), u32(\h766a, \h0abb), u32(\h81c2, \hc92e),
       u32(\h9272, \h2c85), u32(\ha2bf, \he8a1), u32(\ha81a, \h664b),
       u32(\hc24b, \h8b70), u32(\hc76c, \h51a3), u32(\hd192, \he819),
       u32(\hd699, \h0624), u32(\hf40e, \h3585), u32(\h106a, \ha070),
       u32(\h19a4, \hc116), u32(\h1e37, \h6c08), u32(\h2748, \h774c),
       u32(\h34b0, \hbcb5), u32(\h391c, \h0cb3), u32(\h4ed8, \haa4a),
       u32(\h5b9c, \hca4f), u32(\h682e, \h6ff3), u32(\h748f, \h82ee),
       u32(\h78a5, \h636f), u32(\h84c8, \h7814), u32(\h8cc7, \h0208),
       u32(\h90be, \hfffa), u32(\ha450, \h6ceb), u32(\hbef9, \ha3f7),
       u32(\hc671, \h78f2) >>

\* The published SHA-256 digest of "abc" (the test's COMPRESSION_OUTPUT).
COMPRESSION_OUTPUT ==
    << u32(\hba78, \h16bf), u32(\h8f01, \hcfea), u32(\h4141, \h40de),
       u32(\h5dae, \h2223), u32(\hb003, \h61a3), u32(\h9617, \h7a9c),
       u32(\hb410, \hff61), u32(\hf200, \h15ad) >>

\* The published SHA-256 digest of the 448-bit message "abcdbcde...nopq".
TWO_BLOCK_DIGEST ==
    << u32(\h248d, \h6a61), u32(\hd206, \h38b8), u32(\he5c0, \h2693),
       u32(\h0c3e, \h6039), u32(\ha33c, \he459), u32(\h64ff, \h2167),
       u32(\hf6ec, \hedd4), u32(\h19db, \h06c1) >>

\* msg_schedule_test_input(): the padded one-block message "abc".
BLOCK_ABC ==
    << u32(\h6162, \h6380), u32(\h0000, \h0000), u32(\h0000, \h0000),
       u32(\h0000, \h0000), u32(\h0000, \h0000), u32(\h0000, \h0000),
       u32(\h0000, \h0000), u32(\h0000, \h0000), u32(\h0000, \h0000),
       u32(\h0000, \h0000), u32(\h0000, \h0000), u32(\h0000, \h0000),
       u32(\h0000, \h0000), u32(\h0000, \h0000), u32(\h0000, \h0000),
       u32(\h0000, \h0018) >>

\* The two padded blocks of the 448-bit message "abcdbcde...nopq".
BLOCK_448_1 ==
    << u32(\h6162, \h6364), u32(\h6263, \h6465), u32(\h6364, \h6566),
       u32(\h6465, \h6667), u32(\h6566, \h6768), u32(\h6667, \h6869),
       u32(\h6768, \h696a), u32(\h6869, \h6a6b), u32(\h696a, \h6b6c),
       u32(\h6a6b, \h6c6d), u32(\h6b6c, \h6d6e), u32(\h6c6d, \h6e6f),
       u32(\h6d6e, \h6f70), u32(\h6e6f, \h7071), u32(\h8000, \h0000),
       u32(\h0000, \h0000) >>

BLOCK_448_2 ==
    << u32(\h0000, \h0000), u32(\h0000, \h0000), u32(\h0000, \h0000),
       u32(\h0000, \h0000), u32(\h0000, \h0000), u32(\h0000, \h0000),
       u32(\h0000, \h0000), u32(\h0000, \h0000), u32(\h0000, \h0000),
       u32(\h0000, \h0000), u32(\h0000, \h0000), u32(\h0000, \h0000),
       u32(\h0000, \h0000), u32(\h0000, \h0000), u32(\h0000, \h0000),
       u32(\h0000, \h01c0) >>

\* AbcdVar::pieces: a, b, c_lo, c_mid, c_hi, d.
AbcdPiecesOverlap(val) ==
    LET v == i2lebsp(val, 32)
    IN <<SubSeq(v, 1, 2), SubSeq(v, 3, 14), SubSeq(v, 14, 16),
         SubSeq(v, 17, 19), SubSeq(v, 20, 22), SubSeq(v, 23, 32)>>
AbcdPieces(val) ==
    LET v == i2lebsp(val, 32)
    IN <<SubSeq(v, 1, 2), SubSeq(v, 3, 13), SubSeq(v, 14, 16),
         SubSeq(v, 17, 19), SubSeq(v, 20, 22), SubSeq(v, 23, 32)>>

\* EfghVar::pieces: a_lo, a_hi, b_lo, b_hi, c, d.
EfghPieces(val) ==
    LET v == i2lebsp(val, 32)
    IN <<SubSeq(v, 1, 3), SubSeq(v, 4, 6), SubSeq(v, 7, 8),
         SubSeq(v, 9, 11), SubSeq(v, 12, 25), SubSeq(v, 26, 32)>>

\* spread_a, spread_b, spread_c, spread_d of an AbcdVar and of an EfghVar.
AbcdSpreadHighFirst(p) ==
    <<spread(p[1]), spread(p[2]),
      spread(p[5]) \o spread(p[4]) \o spread(p[3]), spread(p[6])>>
AbcdSpread(p) ==
    <<spread(p[1]), spread(p[2]),
      spread(p[3]) \o spread(p[4]) \o spread(p[5]), spread(p[6])>>
EfghSpread(p) ==
    <<spread(p[1]) \o spread(p[2]), spread(p[3]) \o spread(p[4]),
      spread(p[5]), spread(p[6])>>

\* UpperSigmaVar::xor_upper_sigma on <<spread_a, spread_b, spread_c, spread_d>>.
xor_upper_sigma_misrotated(s) ==
    LET a == s[1]
        b == s[2]
        c == s[3]
        d == s[4]
        xor_0 == b \o c \o d \o a
        xor_1 == c \o d \o b \o a
        xor_2 == d \o a \o b \o c
    IN i2lebsp(SumWide(<<lebs2ip(xor_0), lebs2ip(xor_1), lebs2ip(xor_2)>>), 64)
xor_upper_sigma(s) ==
    LET a == s[1]
        b == s[2]
        c == s[3]
        d == s[4]
        xor_0 == b \o c \o d \o a
        xor_1 == c \o d \o a \o b
        xor_2 == d \o a \o b \o c
    IN i2lebsp(SumWide(<<lebs2ip(xor_0), lebs2ip(xor_1), lebs2ip(xor_2)>>), 64)

\* Negates the even bits in a spread bit-array; panics on a set odd bit.
negate_spread_unchecked(arr) ==
    SubSeq([p \in 1..Len(arr) |-> IF p % 2 = 1 THEN ~arr[p] ELSE arr[p]],
           1, Len(arr))
negate_spread_skipped(arr) == arr
negate_spread(arr) ==
    IF \E idx \in 1..(Len(arr) \div 2) : arr[2 * idx]
    THEN <<"panic">>
    ELSE SubSeq([p \in 1..Len(arr) |-> IF p % 2 = 1 THEN ~arr[p] ELSE arr[p]],
                1, Len(arr))

\* sum_with_carry: the words (lo, hi) are summed as sum_lo + (1 << 16) * sum_hi
\* in a u64; carry = sum >> 32 and the sum is truncated to a u32.
RECURSIVE SumHalvesButFirst(_, _)
SumHalvesButFirst(words, k) ==
    IF Len(words) <= 1 THEN 0
    ELSE words[2][k] + SumHalvesButFirst(Tail(words), k)
RECURSIVE SumHalves(_, _)
SumHalves(words, k) ==
    IF words = <<>> THEN 0 ELSE Head(words)[k] + SumHalves(Tail(words), k)

sum_with_carry_bit(words) ==
    LET sum_lo == SumHalves(words, 1)
        sum_hi == SumHalves(words, 2)
        upper == sum_hi + (sum_lo \div Radix)
    IN [sum |-> <<sum_lo % Radix, upper % Radix>>, carry |-> (upper \div Radix) % 2]
sum_without_half_carry(words) ==
    [sum |-> <<SumHalves(words, 1) % Radix, SumHalves(words, 2) % Radix>>,
     carry |-> SumHalves(words, 2) \div Radix]
sum_with_carry(words) ==
    LET sum_lo == SumHalves(words, 1)
        sum_hi == SumHalves(words, 2)
        upper == sum_hi + (sum_lo \div Radix)
    IN [sum |-> <<sum_lo % Radix, upper % Radix>>, carry |-> upper \div Radix]

\* The witnesses of one round (spec 4.5, steps 2 to 5), each a dense word.
\* Sigma_0(A) and Sigma_1(E): the even bits of xor_upper_sigma.
upper_sigma_0(a) == lebs2ip(even_bits(xor_upper_sigma(AbcdSpread(AbcdPieces(a)))))
upper_sigma_1(e) == lebs2ip(even_bits(xor_upper_sigma(EfghSpread(EfghPieces(e)))))

\* The spread form of a dense word, as a u64.
SpreadWord(x) == lebs2ip(spread(i2lebsp(x, 32)))

\* Ch is witnessed in two parts: P = E and F is the odd bits of
\* spread(E) + spread(F), Q = (not E) and G the odd bits of
\* negate_spread(spread(E)) + spread(G).
ch(e, f) == lebs2ip(odd_bits(i2lebsp(SumWide(<<SpreadWord(e), SpreadWord(f)>>), 64)))
ch_neg(e, g) ==
    lebs2ip(odd_bits(i2lebsp(
        SumWide(<<lebs2ip(negate_spread(spread(i2lebsp(e, 32)))), SpreadWord(g)>>),
        64)))

\* Maj(A, B, C): the odd bits of spread(A) + spread(B) + spread(C).
maj(a, b, c) ==
    lebs2ip(odd_bits(i2lebsp(
        SumWide(<<SpreadWord(a), SpreadWord(b), SpreadWord(c)>>), 64)))

\* State: eight optional StateWords; a StateWord is a variant tag and the
\* dense halves of the word (its spread halves and pieces are the spread
\* forms of the same value).
StateWord(tag, dense_halves) == [tag |-> tag, dense_halves |-> dense_halves]

\* The None of an Option<StateWord>.
NoWord == StateWord("None", <<>>)

\* State::empty_state.
empty_state ==
    [a |-> NoWord, b |-> NoWord, c |-> NoWord, d |-> NoWord,
     e |-> NoWord, f |-> NoWord, g |-> NoWord, h |-> NoWord]

\* A State variable outside its scope.
NoState == [live |-> FALSE]

\* State::new on the eight words A .. H.
StateNew(w) ==
    [a |-> StateWord("A", w[1]), b |-> StateWord("B", w[2]),
     c |-> StateWord("C", w[3]), d |-> StateWord("D", w[4]),
     e |-> StateWord("E", w[5]), f |-> StateWord("F", w[6]),
     g |-> StateWord("G", w[7]), h |-> StateWord("H", w[8])]

\* match_state: RoundWordDense::value of the eight words of a full State.
StateValues(s) ==
    <<s.a.dense_halves, s.b.dense_halves, s.c.dense_halves, s.d.dense_halves,
      s.e.dense_halves, s.f.dense_halves, s.g.dense_halves, s.h.dense_halves>>

\* initialize_iv and initialize_state: the State of the eight given words.
initialize_iv(init_state) == StateNew(init_state)
initialize_state(init_state) == StateNew(StateValues(init_state))

\* assign_round: H' = H + Ch + Sigma_1(E) + K_t + W_t,
\* A_new = H' + Sigma_0(A) + Maj(A, B, C), E_new = D + H', and the shift
\* (A, B, C, D, E, F, G, H) := (A_new, A, B, C, E_new, E, F, G).
assign_round(idx, state, w) ==
    LET v == StateValues(state)
        h_prime == sum_with_carry(<<v[8], ch(v[5], v[6]), ch_neg(v[5], v[7]),
                                    upper_sigma_1(v[5]),
                                    ROUND_CONSTANTS[idx + 1], w>>).sum
        a_new == sum_with_carry(<<upper_sigma_0(v[1]), maj(v[1], v[2], v[3]),
                                  h_prime>>).sum
        e_new == sum_with_carry(<<v[4], h_prime>>).sum
    IN StateNew(<<a_new, v[1], v[2], v[3], e_new, v[5], v[6], v[7]>>)

\* The cells the sum gates of a round constrain: the operands of s_h_prime,
\* s_a_new and s_e_new and, for each, the halves of the result and the carry.
round_cells(idx, state, w) ==
    LET v == StateValues(state)
        h_operands == <<v[8], ch(v[5], v[6]), ch_neg(v[5], v[7]),
                        upper_sigma_1(v[5]), ROUND_CONSTANTS[idx + 1], w>>
        h_prime == sum_with_carry(h_operands)
        a_operands == <<upper_sigma_0(v[1]), maj(v[1], v[2], v[3]), h_prime.sum>>
        e_operands == <<v[4], h_prime.sum>>
    IN [idx |-> idx, state |-> v, w |-> w,
        h_operands |-> h_operands, h_prime |-> h_prime,
        a_operands |-> a_operands, a_new |-> sum_with_carry(a_operands),
        e_operands |-> e_operands, e_new |-> sum_with_carry(e_operands)]

\* assign_digest: the s_digest gate ties each digest word to the dense halves
\* (lo, hi) of its state word; the digest takes the State alone.
assign_digest_plus_iv(state) ==
    [i \in 1..8 |-> AssignU32(sum_with_carry(<<StateValues(state)[i], IV[i]>>).sum)]
assign_digest(state) == [i \in 1..8 |-> AssignU32(StateValues(state)[i])]

\* The message schedule (the message_schedule gadget): the 64 round words of
\* a 16-word block.
Rotr(bits, n) == SubSeq(bits, n + 1, 32) \o SubSeq(bits, 1, n)
Shr(bits, n) == SubSeq(bits, n + 1, 32) \o [p \in 1..n |-> FALSE]
Xor3(x, y, z) == SubSeq([p \in 1..32 |-> (x[p] # y[p]) # z[p]], 1, 32)
lower_sigma_0(x) ==
    LET b == i2lebsp(x, 32) IN lebs2ip(Xor3(Rotr(b, 7), Rotr(b, 18), Shr(b, 3)))
lower_sigma_1(x) ==
    LET b == i2lebsp(x, 32) IN lebs2ip(Xor3(Rotr(b, 17), Rotr(b, 19), Shr(b, 10)))

RECURSIVE MessageSchedule(_)
MessageSchedule(w) ==
    IF Len(w) >= ROUNDS THEN w
    ELSE LET t == Len(w) + 1
         IN MessageSchedule(Append(w,
                sum_with_carry(<<lower_sigma_1(w[t - 2]), w[t - 7],
                                 lower_sigma_0(w[t - 15]), w[t - 16]>>).sum))

\* The functions of SHA-256 on 32-bit words as FIPS 180-4 defines them, on
\* little-endian bit arrays.
And2(x, y) == SubSeq([p \in 1..32 |-> x[p] /\ y[p]], 1, 32)
Not1(x) == SubSeq([p \in 1..32 |-> ~x[p]], 1, 32)
FipsSigma0(x) == Xor3(Rotr(x, 2), Rotr(x, 13), Rotr(x, 22))
FipsSigma1(x) == Xor3(Rotr(x, 6), Rotr(x, 11), Rotr(x, 25))
FipsCh(x, y, z) == SubSeq([p \in 1..32 |-> (x[p] /\ y[p]) # (~x[p] /\ z[p])], 1, 32)
FipsMaj(x, y, z) ==
    SubSeq([p \in 1..32 |-> ((x[p] /\ y[p]) # (x[p] /\ z[p])) # (y[p] /\ z[p])],
           1, 32)

\* One round of the compression function on the eight working words.
FipsRound(v, k, w) ==
    LET a == i2lebsp(v[1], 32)
        e == i2lebsp(v[5], 32)
        t1 == <<v[8], lebs2ip(FipsSigma1(e)),
                lebs2ip(FipsCh(e, i2lebsp(v[6], 32), i2lebsp(v[7], 32))), k, w>>
        t2 == <<lebs2ip(FipsSigma0(a)),
                lebs2ip(FipsMaj(a, i2lebsp(v[2], 32), i2lebsp(v[3], 32)))>>
    IN <<sum_with_carry(t1 \o t2).sum, v[1], v[2], v[3],
         sum_with_carry(<<v[4]>> \o t1).sum, v[5], v[6], v[7]>>

RECURSIVE FipsRounds(_, _, _)
FipsRounds(v, w, t) ==
    IF t > ROUNDS \/ Len(v) # 8 THEN v
    ELSE FipsRounds(FipsRound(v, ROUND_CONSTANTS[t], w[t]), w, t + 1)

\* The compression function: the 64 rounds on the block's schedule, and the
\* words of the hash value it started from added to the result.
FipsCompress(h, block) ==
    LET v == FipsRounds(h, MessageSchedule(block), 1)
    IN SubSeq([i \in 1..8 |-> sum_with_carry(<<h[i], v[i]>>).sum], 1, 8)

(***************************************************************************)
(* The spread sums of the round gates on 32-bit words: the operands in     *)
(* spread form, their integer sum, and its even and odd bits.              *)
(***************************************************************************)

\* xor_0, xor_1, xor_2 of xor_upper_sigma.
xor_operands(s) ==
    <<s[2] \o s[3] \o s[4] \o s[1],
      s[3] \o s[4] \o s[1] \o s[2],
      s[4] \o s[1] \o s[2] \o s[3]>>

\* The words the gates are run on: edge cases and words of mixed bits, and
\* for the one-word gates also every word of a single set bit or a single
\* clear bit.
GateWords ==
    {u32(0, 0), u32(\hFFFF, \hFFFF), u32(\hAAAA, \h5555), u32(\h8000, \h0001),
     u32(\h6a09, \he667), u32(\h0F0F, \h00FF)}
OneBitWords ==
    LET bit(k) == lebs2ip([p \in 1..32 |-> p = k])
        hole(k) == lebs2ip([p \in 1..32 |-> p # k])
    IN {bit(k) : k \in 1..32} \cup {hole(k) : k \in 1..32}

GateInit ==
    \/ \E gate \in {"upper_sigma_0", "upper_sigma_1"}, x \in GateWords \cup OneBitWords :
          spr = [SpreadIdle EXCEPT !.pc = "gate", !.gate = gate, !.words = <<x>>]
    \/ \E gate \in {"ch", "ch_neg"}, x \in GateWords, y \in GateWords :
          spr = [SpreadIdle EXCEPT !.pc = "gate", !.gate = gate, !.words = <<x, y>>]
    \/ \E x \in GateWords, y \in GateWords, z \in GateWords :
          spr = [SpreadIdle EXCEPT !.pc = "gate", !.gate = "maj", !.words = <<x, y, z>>]

\* The operands of the gate's sum, each 64 bits in spread form.
GateOperands ==
    /\ spr.pc = "gate"
    /\ LET w == spr.words
           sp(x) == spread(i2lebsp(x, 32))
           ops == CASE spr.gate = "upper_sigma_0" ->
                         xor_operands(AbcdSpread(AbcdPieces(w[1])))
                    [] spr.gate = "upper_sigma_1" ->
                         xor_operands(EfghSpread(EfghPieces(w[1])))
                    [] spr.gate = "ch" -> <<sp(w[1]), sp(w[2])>>
                    [] spr.gate = "ch_neg" -> <<negate_spread(sp(w[1])), sp(w[2])>>
                    [] spr.gate = "maj" -> <<sp(w[1]), sp(w[2]), sp(w[3])>>
       IN spr' = [spr EXCEPT !.pc = "operands", !.ops = ops]
    /\ UNCHANGED <<sel, u32c, sha, hsh, utl, win>>

\* lebs2ip of each operand, the sum in a u64, i2lebsp of the sum.
GateSum ==
    /\ spr.pc = "operands"
    /\ LET total == SumWide(SubSeq([k \in 1..Len(spr.ops) |-> lebs2ip(spr.ops[k])],
                                   1, Len(spr.ops)))
       IN spr' = [spr EXCEPT !.pc = "summed", !.sum = i2lebsp(total, 64),
                             !.overflow = WideOverflow(total, 64)]
    /\ UNCHANGED <<sel, u32c, sha, hsh, utl, win>>

\* even_bits and odd_bits of the sum.
GateSplit ==
    /\ spr.pc = "summed"
    /\ spr.gate # ""
    /\ spr' = [spr EXCEPT !.pc = "split", !.even = even_bits(spr.sum),
                          !.odd = odd_bits(spr.sum)]
    /\ UNCHANGED <<sel, u32c, sha, hsh, utl, win>>

GateNext ==
    \/ GateOperands
    \/ GateSum
    \/ GateSplit

\* The messages that are hashed: "abc" (one block) and the 448-bit message
\* (two blocks).
Messages == {<<BLOCK_ABC>>, <<BLOCK_448_1, BLOCK_448_2>>}

ShaIdle ==
    [pc |-> "idle", blocks |-> <<>>, block |-> 0, w_halves |-> <<>>,
     new_state |-> NoState, initialized_state |-> NoState, state |-> NoState,
     idx |-> 0, digest |-> <<>>, cells |-> <<>>, runs |-> <<>>]

\* synthesize: the message schedule of the first block is processed first.
ShaInit ==
    \E blocks \in Messages :
        sha = [ShaIdle EXCEPT !.pc = "start", !.blocks = blocks, !.block = 1,
                              !.w_halves = MessageSchedule(blocks[1])]

\* initialize_with_iv: let mut new_state = State::empty_state().
InitializeWithIv ==
    /\ sha.pc = "start"
    /\ sha' = [sha EXCEPT !.pc = "initialize_with_iv", !.new_state = empty_state]
    /\ UNCHANGED <<sel, spr, u32c, hsh, utl, win>>

\* The region closure of initialize_with_iv; then Ok(new_state).
InitializeIvRegion ==
    /\ sha.pc = "initialize_with_iv"
    /\ sha' = [sha EXCEPT !.pc = "initialized", !.new_state = initialize_iv(IV)]
    /\ UNCHANGED <<sel, spr, u32c, hsh, utl, win>>

\* compress(initialized_state, w_halves): let mut state = State::empty_state().
Compress ==
    /\ sha.pc = "initialized"
    /\ sha' = [sha EXCEPT !.pc = "compress", !.initialized_state = sha.new_state,
                          !.state = empty_state]
    /\ UNCHANGED <<sel, spr, u32c, hsh, utl, win>>

\* The region closure of compress starts: state = initialized_state.clone().
CompressRegion ==
    /\ sha.pc = "compress"
    /\ sha' = [sha EXCEPT !.pc = "rounds", !.state = sha.initialized_state,
                          !.idx = 0]
    /\ UNCHANGED <<sel, spr, u32c, hsh, utl, win>>

\* The State a round is given: state.clone().
RoundInputStale(initialized_state, state) == initialized_state
RoundInput(initialized_state, state) == state

\* for (idx, w_halves) in w_halves.iter().enumerate(): whether the iterator
\* has another item.
RoundsLeftButOne(idx, w_halves) == idx < Len(w_halves) - 1
RoundsLeft(idx, w_halves) == idx < Len(w_halves)

\* One iteration of the loop over w_halves.
AssignRound ==
    /\ sha.pc = "rounds"
    /\ RoundsLeft(sha.idx, sha.w_halves)
    /\ sha' = [sha EXCEPT
           !.state = assign_round(sha.idx,
                                  RoundInput(sha.initialized_state, sha.state),
                                  sha.w_halves[sha.idx + 1]),
           !.cells = round_cells(sha.idx,
                                 RoundInput(sha.initialized_state, sha.state),
                                 sha.w_halves[sha.idx + 1]),
           !.idx = sha.idx + 1]
    /\ UNCHANGED <<sel, spr, u32c, hsh, utl, win>>

\* The loop is over: Ok(state).
CompressReturn ==
    /\ sha.pc = "rounds"
    /\ ~RoundsLeft(sha.idx, sha.w_halves)
    /\ sha' = [sha EXCEPT !.pc = "compressed"]
    /\ UNCHANGED <<sel, spr, u32c, hsh, utl, win>>

\* Another block follows: its message schedule is processed and
\* initialize_with_state is called on the State compress returned.
InitializeWithState ==
    /\ sha.pc = "compressed"
    /\ sha.block < Len(sha.blocks)
    /\ sha' = [sha EXCEPT !.pc = "initialize_with_state", !.block = sha.block + 1,
                          !.w_halves = MessageSchedule(sha.blocks[sha.block + 1]),
                          !.new_state = empty_state]
    /\ UNCHANGED <<sel, spr, u32c, hsh, utl, win>>

\* The region closure of initialize_with_state; then Ok(new_state).
InitializeStateRegion ==
    /\ sha.pc = "initialize_with_state"
    /\ sha' = [sha EXCEPT !.pc = "initialized",
                          !.new_state = initialize_state(sha.state)]
    /\ UNCHANGED <<sel, spr, u32c, hsh, utl, win>>

\* digest(state) after the last block.
Digest ==
    /\ sha.pc = "compressed"
    /\ sha.block = Len(sha.blocks)
    /\ sha' = [sha EXCEPT !.pc = "digested", !.digest = assign_digest(sha.state)]
    /\ UNCHANGED <<sel, spr, u32c, hsh, utl, win>>

ShaNext ==
    \/ InitializeWithIv
    \/ InitializeIvRegion
    \/ Compress
    \/ CompressRegion
    \/ AssignRound
    \/ CompressReturn
    \/ InitializeWithState
    \/ InitializeStateRegion
    \/ Digest

(***************************************************************************)
(* The layouter may invoke the closure of a region more than once (a floor *)
(* planner first runs it to measure the region and then to assign it);     *)
(* runs records what each earlier invocation left behind.                  *)
(***************************************************************************)

\* The most invocations of one region closure.
MaxInvocations == 2

\* let mut offset = 0, at the head of the closure of select.
ClosureOffsetKept(offset) == offset
ClosureOffset(offset) == 0

\* The closure of select has run to its end and is invoked again: offset and
\* arr start afresh from the arguments.
SelectReinvoke ==
    /\ sel.pc = "for"
    /\ sel.i = Len(sel.index_bits)
    /\ Len(sel.work) = 1
    /\ Len(sel.runs) + 1 < MaxInvocations
    /\ sel' = [sel EXCEPT
           !.runs = Append(sel.runs, [rows |-> sel.rows, ret |-> sel.work[1]]),
           !.offset = ClosureOffset(sel.offset), !.work = sel.arr, !.i = 0]
    /\ UNCHANGED <<spr, u32c, sha, hsh, utl, win>>

\* An invocation of the closure of initialize_with_iv that is not the last.
InitializeIvReinvoke ==
    /\ sha.pc = "initialize_with_iv"
    /\ Len(sha.runs) + 1 < MaxInvocations
    /\ sha' = [sha EXCEPT
           !.new_state = initialize_iv(IV),
           !.runs = Append(sha.runs, [fn |-> <<"initialize_with_iv", 1>>,
                                      state |-> StateValues(initialize_iv(IV))])]
    /\ UNCHANGED <<sel, spr, u32c, hsh, utl, win>>

\* The closure of compress has run to its end and is invoked again:
\* state = initialized_state.clone(), and the loop over w_halves restarts.
CompressReinvoke ==
    /\ sha.pc = "rounds"
    /\ ~RoundsLeft(sha.idx, sha.w_halves)
    /\ Len(SelectSeq(sha.runs, LAMBDA r : r.fn = <<"compress", sha.block>>)) + 1
           < MaxInvocations
    /\ sha' = [sha EXCEPT
           !.runs = Append(sha.runs, [fn |-> <<"compress", sha.block>>,
                                      state |-> StateValues(sha.state)]),
           !.state = sha.initialized_state, !.idx = 0]
    /\ UNCHANGED <<sel, spr, u32c, hsh, utl, win>>

RerunInit ==
    \/ SelectInit /\ sha = ShaIdle
    \/ ShaInit /\ sel = SelectIdle

RerunNext ==
    \/ SelectCall
    \/ SelectPass
    \/ SelectPickRow
    \/ SelectCollect
    \/ SelectReinvoke
    \/ SelectReturn
    \/ InitializeWithIv
    \/ InitializeIvReinvoke
    \/ InitializeIvRegion
    \/ Compress
    \/ CompressRegion
    \/ AssignRound
    \/ CompressReinvoke
    \/ CompressReturn
    \/ InitializeWithState
    \/ InitializeStateRegion
    \/ Digest

(***************************************************************************)
(* The SHA-256 hasher over a field (filecoin-hashers/src/sha256.rs).       *)
(* A Sha256Domain is its 32 bytes of state; Sha256Function wraps the       *)
(* incremental hasher of the sha2 crate, modelled by the bytes written.    *)
(***************************************************************************)

\* The field type parameters the hasher is instantiated with.
Fields == {"Fr", "Fp", "Fq"}

\* The longest input the incremental hasher is fed.
MaxBufferBytes == 64

\* The 16 big-endian words of a 64-byte block, the 32 big-endian bytes of
\* eight words.
BlockWords(bytes) ==
    SubSeq([i \in 1..16 |-> u32(bytes[4 * i - 3] * 256 + bytes[4 * i - 2],
                                bytes[4 * i - 1] * 256 + bytes[4 * i])], 1, 16)
WordsBytes(words) ==
    SubSeq([j \in 1..32 |->
               LET w == words[((j - 1) \div 4) + 1]
                   half == IF (j - 1) % 4 < 2 THEN w[2] ELSE w[1]
               IN IF (j - 1) % 2 = 0 THEN half \div 256 ELSE half % 256], 1, 32)

\* The padding of FIPS 180-4: 0x80, zeros, and the bit length in 64 bits.
Padded(data) ==
    LET zeros == (119 - (Len(data) % 64)) % 64
        bits == 8 * Len(data)
    IN data \o <<128>> \o [k \in 1..(zeros + 6) |-> 0]
            \o <<bits \div 256, bits % 256>>

RECURSIVE HashBlocks(_, _)
HashBlocks(h, bytes) ==
    IF bytes = <<>> THEN h
    ELSE HashBlocks(FipsCompress(h, BlockWords(SubSeq(bytes, 1, 64))),
                    SubSeq(bytes, 65, Len(bytes)))

\* Sha256::digest(data) and Sha256::finalize() after the updates that wrote
\* data: the SHA-256 digest, 32 bytes.
Sha256Digest(data) == WordsBytes(HashBlocks(IV, Padded(data)))

\* Sha256Domain<F>::trim_to_fr32: self.state[31] &= 0b0011_1111.
trim_by_field_size(F, state) ==
    [state EXCEPT ![32] = state[32] % (IF F = "Fr" THEN 128 ELSE 64)]
trim_to_fr32(F, state) == [state EXCEPT ![32] = state[32] % 64]

\* The byte arrays the hasher is run on: the one-block preimages of
\* test_sha256_vanilla_all_fields, and two domain elements.
Preimages == {<<1>>, <<0, 55, 0, 0>>}
Domains == {[k \in 1..32 |-> 1], [k \in 1..32 |-> 255]}

HashIdle ==
    [pc |-> "idle", F |-> "", buffer |-> <<>>, op |-> "", digest |-> <<>>,
     ret |-> <<>>]

\* Sha256Function::<F>::default().
HashInit == \E F \in Fields : hsh = [HashIdle EXCEPT !.pc = "ready", !.F = F]

\* What hash, hash2, Algorithm::hash, node and multi_node do once the bytes
\* are hashed: copy the digest, trim it, return it.
Trimmed(op, digest) ==
    [hsh EXCEPT !.pc = "returned", !.op = op, !.digest = digest,
                !.ret = trim_to_fr32(hsh.F, digest)]

\* HashFunction::hash(data).
HashFunctionHash ==
    /\ hsh.pc = "ready"
    /\ \E data \in Preimages : hsh' = Trimmed("hash", Sha256Digest(data))
    /\ UNCHANGED <<sel, spr, u32c, sha, utl, win>>

\* HashFunction::hash2(a, b): chain_update(a).chain_update(b).finalize().
HashFunctionHash2 ==
    /\ hsh.pc = "ready"
    /\ \E a \in Domains, b \in Domains :
          hsh' = Trimmed("hash2", Sha256Digest(a \o b))
    /\ UNCHANGED <<sel, spr, u32c, sha, utl, win>>

\* Hashable::hash of a domain element: Hasher::write, hasher.update(msg).
HasherWrite ==
    /\ hsh.pc = "ready"
    /\ Len(hsh.buffer) + 32 <= MaxBufferBytes
    /\ \E msg \in Domains : hsh' = [hsh EXCEPT !.buffer = hsh.buffer \o msg]
    /\ UNCHANGED <<sel, spr, u32c, sha, utl, win>>

\* Algorithm::hash: self.hasher.clone().finalize(), the hasher left as it is.
AlgorithmHash ==
    /\ hsh.pc = "ready"
    /\ hsh' = Trimmed("Algorithm::hash", Sha256Digest(hsh.buffer))
    /\ UNCHANGED <<sel, spr, u32c, sha, utl, win>>

\* Algorithm::reset.
AlgorithmReset ==
    /\ hsh.pc = "ready"
    /\ hsh' = [hsh EXCEPT !.buffer = <<>>]
    /\ UNCHANGED <<sel, spr, u32c, sha, utl, win>>

\* Algorithm::node: left.hash(self); right.hash(self); self.hash().
AlgorithmNode ==
    /\ hsh.pc = "ready"
    /\ Len(hsh.buffer) + 64 <= MaxBufferBytes
    /\ \E left \in Domains, right \in Domains :
          LET written == hsh.buffer \o left \o right
          IN hsh' = [Trimmed("node", Sha256Digest(written)) EXCEPT !.buffer = written]
    /\ UNCHANGED <<sel, spr, u32c, sha, utl, win>>

\* Algorithm::multi_node: every part is written, then self.hash().
AlgorithmMultiNode ==
    /\ hsh.pc = "ready"
    /\ \E parts \in {<<>>} \cup {<<a>> : a \in Domains}
                        \cup {<<a, b>> : a \in Domains, b \in Domains} :
          LET RECURSIVE Written(_, _)
              Written(buffer, rest) ==
                  IF rest = <<>> THEN buffer
                  ELSE Written(buffer \o Head(rest), Tail(rest))
              written == Written(hsh.buffer, parts)
          IN /\ Len(written) <= MaxBufferBytes
             /\ hsh' = [Trimmed("multi_node", Sha256Digest(written))
                           EXCEPT !.buffer = written]
    /\ UNCHANGED <<sel, spr, u32c, sha, utl, win>>

\* The caller has taken the returned domain element.
HashReturn ==
    /\ hsh.pc = "returned"
    /\ hsh' = [hsh EXCEPT !.pc = "ready", !.op = "", !.digest = <<>>, !.ret = <<>>]
    /\ UNCHANGED <<sel, spr, u32c, sha, utl, win>>

HashNext ==
    \/ HashFunctionHash
    \/ HashFunctionHash2
    \/ HasherWrite
    \/ AlgorithmHash
    \/ AlgorithmReset
    \/ AlgorithmNode
    \/ AlgorithmMultiNode
    \/ HashReturn

(***************************************************************************)
(* Calls of the pure functions of sha256/table16 (util.rs and the pieces   *)
(* of compression.rs) on inputs of their own.                              *)
(***************************************************************************)

\* The longest list of words sum_with_carry is called with.
MaxWords == 4

\* The halves (lo, hi: u16) of the words that are summed.
SampleHalves == {0, 1, \hFFFF}

UtilIdle == [pc |-> "idle", fn |-> "", arg |-> <<>>, ret |-> <<>>]

UtilInit ==
    \/ \E n \in 0..MaxWords :
          \E words \in SeqsOfLen(SampleHalves \X SampleHalves, n) :
              utl = [UtilIdle EXCEPT !.pc = "call", !.fn = "sum_with_carry",
                                     !.arg = words]
    \/ \E arr \in SeqsOfLen(BOOLEAN, 2 * SpreadWidth) :
          utl = [UtilIdle EXCEPT !.pc = "call", !.fn = "negate_spread", !.arg = arr]
    \/ \E fn \in {"AbcdVar::pieces", "EfghVar::pieces", "spread"},
          val \in GateWords \cup OneBitWords :
          utl = [UtilIdle EXCEPT !.pc = "call", !.fn = fn, !.arg = val]

\* sum_with_carry(words): (sum, carry).
CallSumWithCarry ==
    /\ utl.pc = "call"
    /\ utl.fn = "sum_with_carry"
    /\ utl' = [utl EXCEPT !.pc = "returned", !.ret = sum_with_carry(utl.arg)]
    /\ UNCHANGED <<sel, spr, u32c, sha, hsh, win>>

\* negate_spread(arr), and negate_spread of what it returned.
CallNegateSpread ==
    /\ utl.pc = "call"
    /\ utl.fn = "negate_spread"
    /\ LET neg == negate_spread(utl.arg)
       IN IF neg = <<"panic">>
          THEN utl' = [utl EXCEPT !.pc = "panicked"]
          ELSE utl' = [utl EXCEPT !.pc = "returned",
                                  !.ret = [neg |-> neg, twice |-> negate_spread(neg)]]
    /\ UNCHANGED <<sel, spr, u32c, sha, hsh, win>>

\* AbcdVar::pieces(val) and EfghVar::pieces(val).
CallPieces ==
    /\ utl.pc = "call"
    /\ utl.fn \in {"AbcdVar::pieces", "EfghVar::pieces"}
    /\ utl' = [utl EXCEPT !.pc = "returned",
                          !.ret = IF utl.fn = "AbcdVar::pieces"
                                  THEN AbcdPieces(utl.arg) ELSE EfghPieces(utl.arg)]
    /\ UNCHANGED <<sel, spr, u32c, sha, hsh, win>>

\* The spread form of a word looked up, and even_bits and odd_bits of it.
CallSpread ==
    /\ utl.pc = "call"
    /\ utl.fn = "spread"
    /\ LET s == spread(i2lebsp(utl.arg, 32))
       IN utl' = [utl EXCEPT !.pc = "returned",
                             !.ret = [spread |-> s, even |-> even_bits(s),
                                      odd |-> odd_bits(s)]]
    /\ UNCHANGED <<sel, spr, u32c, sha, hsh, win>>

UtilNext ==
    \/ CallSumWithCarry
    \/ CallNegateSpread
    \/ CallPieces
    \/ CallSpread

(***************************************************************************)
(* The public inputs of a window PoSt partition                            *)
(* (storage-proofs-post/src/halo2/window.rs).                              *)
(***************************************************************************)

\* The most sectors a prover's sector set holds.
MaxSectors == 4

\* The number of Merkle challenges per challenged sector.
SECTOR_CHALLENGES == 10

\* The const parameter SECTOR_NODES: the nodes of a 2 KiB sector.
SECTOR_NODES == 64

\* challenged_sector_count::<SECTOR_NODES>(): 2 for every sector size but
\* 32 GiB and 64 GiB.
challenged_sector_count == 2

\* u64::to_le_bytes and usize::to_le_bytes, for values below 2^31.
U64LeBytes(n) ==
    SubSeq([j \in 1..8 |-> IF j <= 4 THEN (n \div (256 ^ (j - 1))) % 256 ELSE 0],
           1, 8)

\* u64::from_le_bytes(bytes) % m.
RECURSIVE LeBytesMod(_, _)
LeBytesMod(bytes, m) ==
    IF bytes = <<>> THEN 0
    ELSE (Head(bytes) + 256 * LeBytesMod(Tail(bytes), m)) % m

\* generate_challenges(randomness, sector_index, sector_id, k).
generate_challenges(randomness, sector_index, sector_id, k) ==
    LET hasher == to_repr(randomness) \o U64LeBytes(sector_id)
        partition_sectors == challenged_sector_count
        challenge_index == (k * partition_sectors + sector_index) * SECTOR_CHALLENGES
    IN SubSeq([c \in 1..SECTOR_CHALLENGES |->
                  LeBytesMod(SubSeq(Sha256Digest(
                                 hasher \o U64LeBytes(challenge_index + c - 1)), 1, 8),
                             SECTOR_NODES)],
              1, SECTOR_CHALLENGES)

\* The sectors of the provers: each with its id and its comm_r (a domain
\* element, the 32 bytes of a field element).
SectorPool ==
    << [id |-> 5, comm_r |-> to_repr([ZeroLimbs EXCEPT ![1] = \h0101])],
       [id |-> 300, comm_r |-> to_repr([ZeroLimbs EXCEPT ![2] = \h0202])],
       [id |-> 7, comm_r |-> to_repr(MODULUS_MINUS_ONE)],
       [id |-> 70000, comm_r |-> to_repr([ZeroLimbs EXCEPT ![16] = \h0404])] >>

WinIdle ==
    [pc |-> "idle", sectors |-> <<>>, randomness |-> <<>>, k |-> <<>>,
     k_or_0 |-> 0, partition_sectors |-> <<>>, sector_index |-> 0,
     comms_r |-> <<>>, challenges |-> <<>>]

\* vanilla::PublicInputs: the prover's sectors, the randomness and the
\* partition index k: Option<usize> (<<>> is None).
WinInit ==
    \E n \in 1..MaxSectors, first \in 0..1, k \in {<<>>, <<0>>, <<1>>, <<2>>},
       r \in {to_repr([ZeroLimbs EXCEPT ![1] = 1]), to_repr(MODULUS_MINUS_ONE)} :
        win = [WinIdle EXCEPT
                  !.pc = "from",
                  !.sectors = SubSeq([i \in 1..n |->
                                  SectorPool[((first + i - 1) % 4) + 1]], 1, n),
                  !.randomness = r, !.k = k]

\* PublicInputs::from up to its loop: the assertion on the number of sectors,
\* k.unwrap_or(0) and sectors.chunks(..).nth(k), which panics when the sector
\* set has no partition k.
PublicInputsFrom ==
    /\ win.pc = "from"
    /\ LET sectors_challenged_per_partition == challenged_sector_count
           total_prover_sectors == Len(win.sectors)
           k == IF win.k = <<>> THEN 0 ELSE win.k[1]
           from == k * sectors_challenged_per_partition
       IN IF \/ total_prover_sectors % sectors_challenged_per_partition # 0
             \/ from >= total_prover_sectors
          THEN win' = [win EXCEPT !.pc = "panicked"]
          ELSE win' = [win EXCEPT
                   !.pc = "for", !.k_or_0 = k, !.sector_index = 0,
                   !.partition_sectors =
                       SubSeq(win.sectors, from + 1,
                              Min(from + sectors_challenged_per_partition,
                                  total_prover_sectors)),
                   !.comms_r = <<>>, !.challenges = <<>>]
    /\ UNCHANGED <<sel, spr, u32c, sha, hsh, utl>>

\* The sector whose comm_r is pushed for a challenged sector:
\* vanilla_pub_inputs.sectors[0].
CommRSector(sectors, sector) == sectors[1]

\* One iteration of the loop over partition_sectors.
FromSector ==
    /\ win.pc = "for"
    /\ win.sector_index < Len(win.partition_sectors)
    /\ LET sector == win.partition_sectors[win.sector_index + 1]
           randomness == from_repr_vartime(win.randomness)
           comm_r == from_repr_vartime(CommRSector(win.sectors, sector).comm_r)
           challenges == generate_challenges(randomness, win.sector_index,
                                             sector.id, win.k_or_0)
       IN win' = [win EXCEPT !.comms_r = Append(win.comms_r, comm_r),
                             !.challenges = Append(win.challenges, challenges),
                             !.sector_index = win.sector_index + 1]
    /\ UNCHANGED <<sel, spr, u32c, sha, hsh, utl>>

\* The loop is over: pub_inputs is returned.
FromReturn ==
    /\ win.pc = "for"
    /\ win.sector_index = Len(win.partition_sectors)
    /\ win' = [win EXCEPT !.pc = "done"]
    /\ UNCHANGED <<sel, spr, u32c, sha, hsh, utl>>

WinNext ==
    \/ PublicInputsFrom
    \/ FromSector
    \/ FromReturn

(***************************************************************************)
(* The specifications: one per chip, the other chips idle.                 *)
(***************************************************************************)
InitSelect ==
    /\ SelectInit
    /\ spr = SpreadIdle
    /\ u32c = U32Idle
    /\ sha = ShaIdle
    /\ hsh = HashIdle
    /\ utl = UtilIdle
    /\ win = WinIdle

SpecSelect == InitSelect /\ [][SelectNext]_vars

InitSpread ==
    /\ SpreadInit
    /\ sel = SelectIdle
    /\ u32c = U32Idle
    /\ sha = ShaIdle
    /\ hsh = HashIdle
    /\ utl = UtilIdle
    /\ win = WinIdle

SpecSpread == InitSpread /\ [][SpreadNext]_vars

InitU32 ==
    /\ U32Init
    /\ sel = SelectIdle
    /\ spr = SpreadIdle
    /\ sha = ShaIdle
    /\ hsh = HashIdle
    /\ utl = UtilIdle
    /\ win = WinIdle

SpecU32 == InitU32 /\ [][U32Next]_vars

InitPack ==
    /\ PackInit
    /\ sel = SelectIdle
    /\ spr = SpreadIdle
    /\ sha = ShaIdle
    /\ hsh = HashIdle
    /\ utl = UtilIdle
    /\ win = WinIdle

SpecPack == InitPack /\ [][PackNext]_vars

InitSha ==
    /\ ShaInit
    /\ sel = SelectIdle
    /\ spr = SpreadIdle
    /\ u32c = U32Idle
    /\ hsh = HashIdle
    /\ utl = UtilIdle
    /\ win = WinIdle

SpecSha == InitSha /\ [][ShaNext]_vars

InitGate ==
    /\ GateInit
    /\ sel = SelectIdle
    /\ u32c = U32Idle
    /\ sha = ShaIdle
    /\ hsh = HashIdle
    /\ utl = UtilIdle
    /\ win = WinIdle

SpecGate == InitGate /\ [][GateNext]_vars

InitHash ==
    /\ HashInit
    /\ sel = SelectIdle
    /\ spr = SpreadIdle
    /\ u32c = U32Idle
    /\ sha = ShaIdle
    /\ utl = UtilIdle
    /\ win = WinIdle

SpecHash == InitHash /\ [][HashNext]_vars

InitUtil ==
    /\ UtilInit
    /\ sel = SelectIdle
    /\ spr = SpreadIdle
    /\ u32c = U32Idle
    /\ sha = ShaIdle
    /\ hsh = HashIdle
    /\ win = WinIdle

SpecUtil == InitUtil /\ [][UtilNext]_vars

InitWin ==
    /\ WinInit
    /\ sel = SelectIdle
    /\ spr = SpreadIdle
    /\ u32c = U32Idle
    /\ sha = ShaIdle
    /\ hsh = HashIdle
    /\ utl = UtilIdle

SpecWin == InitWin /\ [][WinNext]_vars

InitProver ==
    /\ ProverInit
    /\ spr = SpreadIdle
    /\ u32c = U32Idle
    /\ sha = ShaIdle
    /\ hsh = HashIdle
    /\ utl = UtilIdle
    /\ win = WinIdle

SpecProver == InitProver /\ [][ProverNext]_vars

InitStrip ==
    /\ StripInit
    /\ sel = SelectIdle
    /\ spr = SpreadIdle
    /\ sha = ShaIdle
    /\ hsh = HashIdle
    /\ utl = UtilIdle
    /\ win = WinIdle

SpecStrip == InitStrip /\ [][ProverStripBits]_vars

InitRerun ==
    /\ RerunInit
    /\ spr = SpreadIdle
    /\ u32c = U32Idle
    /\ hsh = HashIdle
    /\ utl = UtilIdle
    /\ win = WinIdle

SpecRerun == InitRerun /\ [][RerunNext]_vars

(***************************************************************************)
(* Claims.                                                                 *)
(***************************************************************************)

\* C1: for every array of length 2^k (k >= 1) and every index i < 2^k,
\* select(array, little-endian bits of i) returns the value of array[i].
C1_SelectReturnsIndexed ==
    (sel.pc = "done" /\ Len(sel.index_bits) >= 1)
        => sel.ret = sel.arr[BitsToIndex(sel.index_bits) + 1]

\* The number of operands of the spread sum whose bit i (position i + 1) is set.
SpreadOnes(p) == Cardinality({k \in 1..Len(spr.ops) : spr.ops[k][p]})

\* C8: for all pairs and triples of n-bit values the even bits of the integer
\* sum of their spread encodings are their bitwise XOR; no carry reaches an even
\* position: each column's carry stays in the odd position above it and nothing
\* leaves the 2n bits.
C8_SpreadSumEvenIsXor ==
    spr.pc = "split" =>
        /\ \A p \in 1..SpreadWidth : spr.even[p] = (SpreadOnes(p) % 2 = 1)
        /\ \A p \in 1..SpreadWidth : spr.odd[p] = (SpreadOnes(p) >= 2)
        /\ spr.overflow = 0

\* C8 witness: three operands with every bit set, so every column carries, and
\* the split has been taken.
C8_Witness ==
    /\ spr.pc = "split"
    /\ Len(spr.ops) = 3
    /\ \A k \in 1..3 : \A p \in 1..SpreadWidth : spr.ops[k][p]
    /\ \A p \in 1..SpreadWidth : spr.even[p] /\ spr.odd[p]

\* C5: witness_decompose(v) yields the eight u32 limbs of v, little end first
\* (limb i is the value of bytes 4i..4i+3 of the canonical representation, that
\* is 16-bit limbs 2i and 2i+1 of v), and pack of those limbs returns v; also
\* for v = 0 and v = modulus - 1.
C5_DecomposePackRoundTrip ==
    /\ u32c.pc \in {"decomposed", "packed", "stripped"} =>
          \A i \in 0..7 :
              value_u32(u32c.u32s[i + 1])
                  = <<u32c.value[2 * i + 1], u32c.value[2 * i + 2]>>
    /\ u32c.pc \in {"packed", "stripped"} => u32c.packed = u32c.value
    /\ u32c.pc # "panicked"

\* C5 witness: the largest field element has been decomposed and packed back.
C5_Witness ==
    /\ u32c.pc = "packed"
    /\ u32c.value = MODULUS_MINUS_ONE
    /\ u32c.packed = MODULUS_MINUS_ONE
    /\ value_u32(u32c.u32s[8]) = <<0, \h4000>>

\* C6: strip_bits(u) is u & 0x3FFFFFFF: bits 30 and 31 are cleared, bits 0..29
\* are those of u.
C6_StripBitsMask ==
    u32c.pc = "stripped" =>
        /\ \A p \in 1..30 : u32c.stripped[p] = u32c.uint32[p]
        /\ ~u32c.stripped[31]
        /\ ~u32c.stripped[32]
        /\ Len(u32c.stripped) = 32

\* C6 witness: a u32 with bits 30 and 31 and some lower bits set was stripped.
C6_Witness ==
    /\ u32c.pc = "stripped"
    /\ u32c.uint32[31] /\ u32c.uint32[32] /\ u32c.uint32[30] /\ ~u32c.uint32[2]
    /\ u32c.stripped[30] /\ ~u32c.stripped[31] /\ ~u32c.stripped[32]

\* (x as u64 + y as u64) as u32, the addition of the compress test.
wrapping_add(x, y) ==
    LET lo == x[1] + y[1]
    IN <<lo % Radix, (x[2] + y[2] + (lo \div Radix)) % Radix>>

\* C4: as the compress test asserts, for the "abc" block compressed from IV
\* every word of the array returned by digest, with IV[idx] added by the caller
\* modulo 2^32, is COMPRESSION_OUTPUT[idx].
C4_DigestPlusIvIsOutput ==
    (sha.pc = "digested" /\ sha.blocks = <<BLOCK_ABC>>) =>
        \A idx \in 1..8 :
            wrapping_add(value_u32(sha.digest[idx]), IV[idx]) = COMPRESSION_OUTPUT[idx]

\* C4 witness: the "abc" block was compressed from IV and digested, and the
\* first digest word is 0x506e3058, which with IV[0] added is 0xba7816bf.
C4_Witness ==
    /\ sha.pc = "digested"
    /\ sha.blocks = <<BLOCK_ABC>>
    /\ sha.idx = ROUNDS
    /\ value_u32(sha.digest[1]) = u32(\h506e, \h3058)

\* (x - y) modulo 2^32.
wrapping_sub(x, y) ==
    LET lo == x[1] - y[1] + Radix
    IN <<lo % Radix, (x[2] - y[2] + Radix - 1 + (lo \div Radix)) % Radix>>

C7_ChainedDigestIsSha256 ==
    (sha.pc = "digested" /\ sha.blocks = <<BLOCK_448_1, BLOCK_448_2>>) =>
        \/ \A idx \in 1..8 : value_u32(sha.digest[idx]) = TWO_BLOCK_DIGEST[idx]
        \/ \A idx \in 1..8 :
               wrapping_add(value_u32(sha.digest[idx]), IV[idx]) = TWO_BLOCK_DIGEST[idx]
        \/ \A idx \in 1..8 :
               wrapping_add(value_u32(sha.digest[idx]),
                            StateValues(sha.initialized_state)[idx]) =
                   TWO_BLOCK_DIGEST[idx]

\* C9: each round replaces the state by (A_new, old A, old B, old C, E_new,
\* old E, old F, old G): the words B, C, D, F, G, H carry the values of their
\* predecessors under their own variants, and only A and E are new.
C9_RoundShiftsState ==
    [][(sha.pc = "rounds" /\ sha'.pc = "rounds") =>
          LET old == StateValues(sha.state)
              new == StateValues(sha'.state)
              t == sha'.state
          IN /\ new[2] = old[1] /\ new[3] = old[2] /\ new[4] = old[3]
             /\ new[6] = old[5] /\ new[7] = old[6] /\ new[8] = old[7]
             /\ <<t.a.tag, t.b.tag, t.c.tag, t.d.tag, t.e.tag, t.f.tag, t.g.tag, t.h.tag>>
                    = <<"A", "B", "C", "D", "E", "F", "G", "H">>
             /\ new[1] = sum_with_carry(<<upper_sigma_0(old[1]),
                                          maj(old[1], old[2], old[3]),
                                          wrapping_sub(new[5], old[4])>>).sum]_vars

\* C9 witness: two rounds from IV have run; C is IV[0], D is IV[1], G is IV[4],
\* H is IV[5], and A is a new value.
C9_Witness ==
    /\ sha.pc = "rounds"
    /\ sha.idx = 2
    /\ sha.block = 1
    /\ StateValues(sha.state)[3] = IV[1]
    /\ StateValues(sha.state)[4] = IV[2]
    /\ StateValues(sha.state)[7] = IV[5]
    /\ StateValues(sha.state)[8] = IV[6]
    /\ StateValues(sha.state)[1] # IV[1]

C11_LengthMismatchRejected ==
    (sel.pc # "idle" /\ Len(sel.arr) # 2 ^ Len(sel.index_bits)) =>
        /\ sel.pc \in {"call", "panicked"}
        /\ ~sel.region
        /\ sel.rows = <<>>
        /\ sel.offset = 0
        /\ sel.work = <<>>

\* C11 witness: select was called on 3 cells with 2 index bits and panicked.
C11_Witness ==
    /\ sel.pc = "panicked"
    /\ Len(sel.arr) = 3
    /\ Len(sel.index_bits) = 2
    /\ ~sel.region

\* C13: select on n = 2^k cells enables the pick gate on exactly n - 1 rows,
\* the rows 0 .. n-2 of its region in order and each once, and makes exactly k
\* passes.
C13_PickRowsAndPasses ==
    /\ \A r \in 1..Len(sel.rows) :
           sel.rows[r].offset = r - 1 /\ sel.rows[r].s_pick
    /\ sel.pc = "done" =>
           /\ Len(sel.rows) = Len(sel.arr) - 1
           /\ sel.offset = Len(sel.arr) - 1
           /\ sel.i = Len(sel.index_bits)
           /\ Len(sel.arr) = 2 ^ sel.i

\* C13 witness: select returned on 8 cells after 3 passes and 7 gate rows.
C13_Witness ==
    /\ sel.pc = "done"
    /\ Len(sel.arr) = 8
    /\ sel.i = 3
    /\ Len(sel.rows) = 7
    /\ sel.rows[7].offset = 6

\* The 256-bit integer whose 32 little-endian bytes are the eight limbs.
RECURSIVE LimbsInteger(_)
LimbsInteger(limbs) ==
    IF limbs = <<>> THEN <<>>
    ELSE value_u32(Head(limbs)) \o LimbsInteger(Tail(limbs))

\* C12: pack panics when the eight limbs, read as 32 little-endian bytes, are
\* a value not below the modulus, and then assigns no packed cell.
C12_PackPanicsOnNonCanonical ==
    (u32c.pc \notin {"idle", "limbs"} /\ ~WideLess(LimbsInteger(u32c.u32s), MODULUS)) =>
        /\ u32c.pc = "panicked"
        /\ u32c.packed = <<>>

\* C12 witness: pack was called on the limbs of the modulus itself and panicked.
C12_Witness ==
    /\ u32c.pc = "panicked"
    /\ LimbsInteger(u32c.u32s) = MODULUS
    /\ u32c.packed = <<>>

\* C14: the eight limbs decompose assigns are little-endian and satisfy the
\* field_into_u32s gate: limb_0 plus the sum of 2^(32 i) * limb_i is the
\* decomposed value in the field, and every limb is in 0 .. 2^32 - 1.
C14_LimbsSatisfyGate ==
    u32c.pc \in {"decomposed", "packed", "stripped"} =>
        LET row == u32c.rows[1]
        IN /\ row.offset = 0
           /\ row.s_field_into_u32s
           /\ row.value = u32c.value
           /\ field_into_u32s(row)
           /\ \A i \in 1..8 :
                  /\ row.limbs[i] = FieldOfU32(value_u32(u32c.u32s[i]))
                  /\ Len(u32c.u32s[i]) = 32
                  /\ \A k \in 1..2 : row.limbs[i][k] \in 0..(Radix - 1)
                  /\ \A k \in 3..16 : row.limbs[i][k] = 0
           /\ LimbsInteger(u32c.u32s) = u32c.value

\* C14 witness: modulus - 1 was decomposed; its limb 7 is 0x40000000 and its
\* limb 0 is 0.
C14_Witness ==
    /\ u32c.pc = "decomposed"
    /\ u32c.value = MODULUS_MINUS_ONE
    /\ u32c.rows[1].limbs[8] = FieldOfU32(<<0, \h4000>>)
    /\ u32c.rows[1].limbs[1] = ZeroLimbs
    /\ u32c.rows[1].limbs[2] = FieldOfU32(<<\h30ed, \h992d>>)

\* C15: with the binary decomposition, limb i takes the rows 1+4i .. 4+4i, bit
\* j of the limb in row j div 8 of them and limb column j mod 8; every bit cell
\* is 0 or 1, the u32_into_bits gate ties the weighted sum of the 32 bits to
\* the limb copied beside the first row, and no row serves two limbs.
C15_BitRowsLayout ==
    (u32c.pc \in {"decomposed", "packed", "stripped"} /\ u32c.binary_decomp) =>
        /\ Len(u32c.rows) = 33
        /\ \A r \in 1..33 :
               /\ u32c.rows[r].offset = r - 1
               /\ u32c.rows[r].s_field_into_u32s = (r = 1)
               /\ u32c.rows[r].s_u32_into_bits = (r > 1 /\ (r - 2) % 4 = 0)
        /\ \A i \in 0..7 :
               LET first == 2 + 4 * i
                   limb == u32c.u32s[i + 1]
               IN /\ u32c.rows[first].value = FieldOfU32(value_u32(limb))
                  /\ u32_into_bits(u32c.rows, first)
                  /\ \A j \in 0..31 :
                         u32c.rows[first + (j \div 8)].limbs[(j % 8) + 1]
                             = FieldOfBit(limb[j + 1])

\* C15 witness: modulus - 1 was decomposed with the binary decomposition; bit
\* 30 of limb 7 is the 1 in row 32, column 6, and row 29 starts limb 7.
C15_Witness ==
    /\ u32c.pc = "decomposed"
    /\ u32c.binary_decomp
    /\ u32c.value = MODULUS_MINUS_ONE
    /\ u32c.rows[33].offset = 32
    /\ u32c.rows[33].limbs[7] = FieldOfBit(TRUE)
    /\ u32c.rows[33].limbs[8] = FieldOfBit(FALSE)
    /\ u32c.rows[30].s_u32_into_bits
    /\ u32c.rows[30].value = FieldOfU32(<<0, \h4000>>)

\* C16: every digest Sha256Function returns (hash, hash2, Algorithm::hash,
\* node, multi_node) has the two most significant bits of byte 31 cleared and
\* keeps every other bit of the SHA-256 digest, and its bytes are the same
\* for each of the field types Fr, Fp, Fq.
C16_DigestTrimmedForEveryField ==
    hsh.pc = "returned" =>
        /\ Len(hsh.ret) = 32
        /\ hsh.ret[32] \in 0..63
        /\ hsh.ret[32] = hsh.digest[32] % 64
        /\ \A k \in 1..31 : hsh.ret[k] = hsh.digest[k]
        /\ \A G \in Fields : trim_to_fr32(G, hsh.digest) = hsh.ret

\* C16 witness: hash(&[1]) over Fp returned 4bf5122f ... with the last byte
\* trimmed from 0x9a to 0x1a.
C16_Witness ==
    /\ hsh.pc = "returned"
    /\ hsh.F = "Fp"
    /\ hsh.op = "hash"
    /\ SubSeq(hsh.digest, 1, 4) = <<\h4b, \hf5, \h12, \h2f>>
    /\ hsh.digest[32] = \h9a
    /\ hsh.ret[32] = \h1a

\* C17: for a 32-bit word the three operands of xor_upper_sigma are the spread
\* forms of its rotations by 2, 13, 22 over the AbcdVar pieces and by 6, 11, 25
\* over the EfghVar pieces, and the even bits of their sum are Sigma_0(A) and
\* Sigma_1(E).
C17_UpperSigmaIsRotationXor ==
    spr.gate \in {"upper_sigma_0", "upper_sigma_1"} =>
        LET word == spr.words[1]
            bits == i2lebsp(word, 32)
            zero == spr.gate = "upper_sigma_0"
            by == IF zero THEN <<2, 13, 22>> ELSE <<6, 11, 25>>
        IN /\ spr.pc \in {"operands", "summed", "split"} =>
                  /\ Len(spr.ops) = 3
                  /\ \A k \in 1..3 : spr.ops[k] = spread(Rotr(bits, by[k]))
           /\ spr.pc \in {"summed", "split"} =>
                  /\ spr.overflow = 0
                  /\ spr.sum = IF zero THEN xor_upper_sigma(AbcdSpread(AbcdPieces(word)))
                                ELSE xor_upper_sigma(EfghSpread(EfghPieces(word)))
           /\ spr.pc = "split" =>
                  /\ spr.even = IF zero THEN FipsSigma0(bits) ELSE FipsSigma1(bits)
                  /\ lebs2ip(spr.even) = IF zero THEN upper_sigma_0(word)
                                         ELSE upper_sigma_1(word)

\* C17 witness: Sigma_0 of 0x6a09e667 came out as 0xce20b47e.
C17_Witness ==
    /\ spr.pc = "split"
    /\ spr.gate = "upper_sigma_0"
    /\ spr.words = <<u32(\h6a09, \he667)>>
    /\ lebs2ip(spr.even) = u32(\hce20, \hb47e)

\* C19: P, the odd bits of spread(E) + spread(F), is E and F; Q, the odd bits
\* of spread(not E) + spread(G), is (not E) and G; P and Q share no set bit, so
\* P + Q, the two addends of the H' gate, is Ch(E, F, G) with no carry.
C19_ChFromTwoParts ==
    /\ (spr.gate = "ch" /\ spr.pc = "split") =>
           LET e == i2lebsp(spr.words[1], 32)
               f == i2lebsp(spr.words[2], 32)
           IN /\ spr.odd = And2(e, f)
              /\ spr.overflow = 0
              /\ ch(spr.words[1], spr.words[2]) = lebs2ip(spr.odd)
    /\ (spr.gate = "ch_neg" /\ spr.pc = "split") =>
           LET e == i2lebsp(spr.words[1], 32)
               g == i2lebsp(spr.words[2], 32)
           IN /\ spr.ops[1] = spread(Not1(e))
              /\ spr.odd = And2(Not1(e), g)
              /\ spr.overflow = 0
              /\ ch_neg(spr.words[1], spr.words[2]) = lebs2ip(spr.odd)
              /\ \A x \in GateWords :
                     LET f == i2lebsp(x, 32)
                         P == ch(spr.words[1], x)
                     IN /\ \A p \in 1..32 : ~(i2lebsp(P, 32)[p] /\ spr.odd[p])
                        /\ sum_with_carry(<<P, lebs2ip(spr.odd)>>)
                               = [sum |-> lebs2ip(FipsCh(e, f, g)), carry |-> 0]

\* C19 witness: for E = 0xaaaa5555 and G = 0x0f0f00ff, Q came out as
\* 0x050500aa; with F = 0x6a09e667, P is 0x2a084445.
C19_Witness ==
    /\ spr.pc = "split"
    /\ spr.gate = "ch_neg"
    /\ spr.words = <<u32(\hAAAA, \h5555), u32(\h0F0F, \h00FF)>>
    /\ lebs2ip(spr.odd) = u32(\h0505, \h00aa)
    /\ ch(u32(\hAAAA, \h5555), u32(\h6a09, \he667)) = u32(\h2a08, \h4445)

\* C20: the odd bits of spread(A) + spread(B) + spread(C) are Maj(A, B, C) and
\* the even bits are A xor B xor C.
C20_MajFromSpreadSum ==
    (spr.gate = "maj" /\ spr.pc = "split") =>
        LET a == i2lebsp(spr.words[1], 32)
            b == i2lebsp(spr.words[2], 32)
            c == i2lebsp(spr.words[3], 32)
        IN /\ spr.odd = FipsMaj(a, b, c)
           /\ spr.even = Xor3(a, b, c)
           /\ spr.overflow = 0
           /\ maj(spr.words[1], spr.words[2], spr.words[3]) = lebs2ip(spr.odd)

\* C20 witness: Maj(0x6a09e667, 0xaaaa5555, 0x0f0f00ff) came out as 0x2a0b4477
\* beside the xor 0xcfacb3cd.
C20_Witness ==
    /\ spr.pc = "split"
    /\ spr.gate = "maj"
    /\ spr.words = <<u32(\h6a09, \he667), u32(\hAAAA, \h5555), u32(\h0F0F, \h00FF)>>
    /\ lebs2ip(spr.odd) = u32(\h2a0b, \h4477)
    /\ lebs2ip(spr.even) = u32(\hcfac, \hb3cd)

\* The un-reduced sum of words as <<lo, hi, carry>>: lo + 2^16 hi + 2^32 carry.
Unreduced(words) == SumWide(words)

\* C18: in every round H' = (H + Ch(E,F,G) + Sigma_1(E) + K_t + W_t) mod 2^32,
\* A_new = (H' + Sigma_0(A) + Maj(A,B,C)) mod 2^32, E_new = (D + H') mod 2^32,
\* and for each lo + 2^16 hi + 2^32 carry is the un-reduced sum of the
\* gate's operands.
C18_RoundSums ==
    (sha.pc = "rounds" /\ sha.idx > 0) =>
        LET c == sha.cells
            v == c.state
            word(x) == i2lebsp(x, 32)
            Ch == lebs2ip(FipsCh(word(v[5]), word(v[6]), word(v[7])))
            Sigma1 == lebs2ip(FipsSigma1(word(v[5])))
            Sigma0 == lebs2ip(FipsSigma0(word(v[1])))
            Maj == lebs2ip(FipsMaj(word(v[1]), word(v[2]), word(v[3])))
            K == ROUND_CONSTANTS[c.idx + 1]
            H1 == SubSeq(Unreduced(<<v[8], Ch, Sigma1, K, c.w>>), 1, 2)
        IN /\ c.idx = sha.idx - 1
           /\ c.w = sha.w_halves[sha.idx]
           /\ c.h_prime.sum = H1
           /\ c.a_new.sum = SubSeq(Unreduced(<<H1, Sigma0, Maj>>), 1, 2)
           /\ c.e_new.sum = SubSeq(Unreduced(<<v[4], H1>>), 1, 2)
           /\ Append(c.h_prime.sum, c.h_prime.carry) = Unreduced(c.h_operands)
           /\ Append(c.a_new.sum, c.a_new.carry) = Unreduced(c.a_operands)
           /\ Append(c.e_new.sum, c.e_new.carry) = Unreduced(c.e_operands)
           /\ Unreduced(c.h_operands) = Unreduced(<<v[8], Ch, Sigma1, K, c.w>>)
           /\ StateValues(sha.state)[1] = c.a_new.sum
           /\ StateValues(sha.state)[5] = c.e_new.sum

\* C18 witness: a round whose H' sum carried twice out of 32 bits and whose
\* A_new sum carried once.
C18_Witness ==
    /\ sha.pc = "rounds"
    /\ sha.idx > 0
    /\ sha.cells.h_prime.carry = 2
    /\ sha.cells.a_new.carry = 1

\* C21: sum_with_carry returns a carry bit: in every round the carries of the
\* H', A_new and E_new sums are 0 or 1.
C21_CarryIsBit ==
    (sha.pc = "rounds" /\ sha.idx > 0) =>
        /\ sha.cells.h_prime.carry \in {0, 1}
        /\ sha.cells.a_new.carry \in {0, 1}
        /\ sha.cells.e_new.carry \in {0, 1}


\* C22: for every list of words (lo, hi) with lo, hi < 2^16, sum_with_carry
\* returns (s, c) with 0 <= s < 2^32 and s + 2^32 * c the sum of the words
\* lo + 2^16 * hi, and the sum stays below 2^64.
C22_SumWithCarryIsExactSum ==
    (utl.pc = "returned" /\ utl.fn = "sum_with_carry") =>
        LET words == utl.arg
            upper == SumHalves(words, 2) + (SumHalves(words, 1) \div Radix)
        IN /\ Len(utl.ret.sum) = 2
           /\ \A h \in 1..2 : utl.ret.sum[h] \in 0..(Radix - 1)
           /\ utl.ret.carry >= 0
           /\ IF words = <<>>
              THEN utl.ret = [sum |-> <<0, 0>>, carry |-> 0]
              ELSE Append(utl.ret.sum, utl.ret.carry) = SumWide(words)
           /\ (upper \div Radix) \div Radix < Radix

\* C22 witness: three words 0xffffffff were summed to 0xfffffffd, carry 2.
C22_Witness ==
    /\ utl.pc = "returned"
    /\ utl.fn = "sum_with_carry"
    /\ utl.arg = <<<<\hFFFF, \hFFFF>>, <<\hFFFF, \hFFFF>>, <<\hFFFF, \hFFFF>>>>
    /\ utl.ret = [sum |-> <<\hFFFD, \hFFFF>>, carry |-> 2]

\* C23: AbcdVar::pieces returns six ranges of lengths 2, 11, 3, 3, 3, 10 and
\* EfghVar::pieces six ranges of lengths 3, 3, 2, 3, 14, 7; each range starts
\* where the one before it ends, together they cover bits 0..31 once, and
\* their little-endian concatenation is the word.
C23_PiecesPartitionWord ==
    (utl.pc = "returned" /\ utl.fn \in {"AbcdVar::pieces", "EfghVar::pieces"}) =>
        LET lens == IF utl.fn = "AbcdVar::pieces" THEN <<2, 11, 3, 3, 3, 10>>
                    ELSE <<3, 3, 2, 3, 14, 7>>
            bits == i2lebsp(utl.arg, 32)
            p == utl.ret
            RECURSIVE start(_)
            start(i) == IF i = 1 THEN 0 ELSE start(i - 1) + lens[i - 1]
        IN /\ Len(p) = 6
           /\ \A i \in 1..6 :
                 /\ Len(p[i]) = lens[i]
                 /\ \A j \in 1..lens[i] : p[i][j] = bits[start(i) + j]
           /\ start(6) + lens[6] = 32
           /\ p[1] \o p[2] \o p[3] \o p[4] \o p[5] \o p[6] = bits
           /\ lebs2ip(p[1] \o p[2] \o p[3] \o p[4] \o p[5] \o p[6]) = utl.arg

\* C23 witness: the pieces of 0xaaaa5555 as an AbcdVar; the range b ends in
\* the low half and c_lo crosses into the high half.
C23_Witness ==
    /\ utl.pc = "returned"
    /\ utl.fn = "AbcdVar::pieces"
    /\ utl.arg = u32(\hAAAA, \h5555)
    /\ utl.ret[1] = <<TRUE, FALSE>>
    /\ utl.ret[3] = <<FALSE, TRUE, FALSE>>
    /\ utl.ret[4] = <<FALSE, TRUE, FALSE>>

\* C24: the spread form of a 32-bit u has 0 at every odd position and the bits
\* of u in order at the even positions; even_bits of it is u and odd_bits of
\* it is zero.
C24_SpreadRoundTrip ==
    (utl.pc = "returned" /\ utl.fn = "spread") =>
        LET bits == i2lebsp(utl.arg, 32)
        IN /\ Len(utl.ret.spread) = 64
           /\ \A i \in 1..32 : /\ utl.ret.spread[2 * i - 1] = bits[i]
                               /\ ~utl.ret.spread[2 * i]
           /\ utl.ret.even = bits
           /\ lebs2ip(utl.ret.even) = utl.arg
           /\ utl.ret.odd = [i \in 1..32 |-> FALSE]

\* C24 witness: the spread form of 0x6a09e667 was split.
C24_Witness ==
    /\ utl.pc = "returned"
    /\ utl.fn = "spread"
    /\ utl.arg = u32(\h6a09, \he667)
    /\ lebs2ip(utl.ret.even) = u32(\h6a09, \he667)

\* C25: negate_spread of an array whose odd positions are all 0 flips every
\* even position and leaves the odd positions 0, which is the spread form of
\* the complement, and applied twice it returns its input; on an array with
\* an odd position set it panics.
C25_NegateSpread ==
    (utl.fn = "negate_spread" /\ utl.pc # "call") =>
        LET arr == utl.arg
            half == Len(arr) \div 2
            is_spread == \A i \in 1..half : ~arr[2 * i]
        IN /\ utl.pc = "returned" <=> is_spread
           /\ utl.pc = "panicked" <=> ~is_spread
           /\ utl.pc = "returned" =>
                 /\ \A i \in 1..half : /\ utl.ret.neg[2 * i - 1] = ~arr[2 * i - 1]
                                       /\ ~utl.ret.neg[2 * i]
                 /\ utl.ret.neg =
                        spread(SubSeq([i \in 1..half |-> ~even_bits(arr)[i]], 1, half))
                 /\ utl.ret.twice = arr

\* C25 witness: an array with positions 0 and 4 set and 2 clear was negated
\* to the spread form of the complement, and negated again to itself.
C25_Witness ==
    /\ utl.fn = "negate_spread"
    /\ utl.pc = "returned"
    /\ utl.arg[1] /\ ~utl.arg[3] /\ utl.arg[5]
    /\ ~utl.ret.neg[1] /\ utl.ret.neg[3]
    /\ utl.ret.twice = utl.arg

\* C27: the index bits are consumed from the most significant one; after p
\* passes the working array has length 2^(k-p) and its element j is the
\* element of the original array at (value of the top p bits) * 2^(k-p) + j,
\* and after k passes it has one element.
C27_HalvingLoopInvariant ==
    sel.pc = "for" =>
        LET k == Len(sel.index_bits)
            p == sel.i
            top == BitsToIndex(SubSeq(sel.index_bits, k - p + 1, k))
        IN /\ p \in 0..k
           /\ Len(sel.work) = 2 ^ (k - p)
           /\ \A j \in 0..(Len(sel.work) - 1) :
                 sel.work[j + 1] = sel.arr[top * (2 ^ (k - p)) + j + 1]
           /\ p = k => Len(sel.work) = 1

\* C27 witness: two of three passes are over, the top two index bits are 1, 0
\* (value 2) and the two elements left are arr[4] and arr[5].
C27_Witness ==
    /\ sel.pc = "for"
    /\ Len(sel.index_bits) = 3
    /\ sel.i = 2
    /\ sel.index_bits[3] /\ ~sel.index_bits[2]
    /\ Len(sel.work) = 2
    /\ sel.work = SubSeq(sel.arr, 5, 6)

\* C26: the bit cell of the pick gate is boolean-constrained, so in every
\* assignment that satisfies the constraints select emits each gate row has
\* out equal to x_0 or x_1 and the returned cell holds an element of the
\* input array.
C26_SatisfyingAssignmentPicks ==
    sel.pc = "done" =>
        /\ \A r \in 1..Len(sel.rows) : sel.rows[r].bit \in {0, 1}
        /\ \A r \in 1..Len(sel.rows) : sel.rows[r].out \in {sel.rows[r].x_0, sel.rows[r].x_1}
        /\ \E p \in 1..Len(sel.arr) : sel.ret = sel.arr[p]

\* C28: in every assignment of the strip-bits region that satisfies the
\* u32_strip_bits gate the 32 bit cells are the binary digits of the u32
\* cell, each 0 or 1, and the stripped cell is the u32 with bits 30 and 31
\* cleared.
C28_StripBitsSound ==
    u32c.pc = "stripped" =>
        LET val == value_u32(u32c.uint32)
        IN /\ \A j \in 1..32 : u32c.bits[j] = FieldOfBit(u32c.uint32[j])
           /\ u32c.stripped = FieldOfU32(U32And(val, STRIP_MASK))

\* C29: PublicInputs::from for partition k returns comms_r whose i-th entry is
\* the comm_r of the i-th challenged sector of the partition, paired with the
\* challenges generated from that sector's id and index.
C29_EachSectorsOwnCommR ==
    win.pc = "done" =>
        /\ Len(win.comms_r) = Len(win.partition_sectors)
        /\ Len(win.challenges) = Len(win.partition_sectors)
        /\ \A i \in 1..Len(win.partition_sectors) :
              LET sector == win.sectors[win.k_or_0 * challenged_sector_count + i]
              IN /\ win.comms_r[i] = from_repr_vartime(sector.comm_r)
                 /\ win.challenges[i] =
                        generate_challenges(from_repr_vartime(win.randomness),
                                            i - 1, sector.id, win.k_or_0)

\* C30: compress, select and initialize_with_iv restart from their inputs on
\* every invocation of their region closure, so what an earlier invocation
\* assigned and returned equals what the last one assigns and returns: the
\* rows and the returned cell of select, the State of initialize_with_iv and
\* the State of compress.
C30_ClosureInvocationsAgree ==
    /\ sel.pc = "done" =>
          /\ \A r \in 1..Len(sel.runs) :
                sel.runs[r] = [rows |-> sel.rows, ret |-> sel.ret]
          /\ \A r \in 1..Len(sel.rows) : sel.rows[r].offset = r - 1
    /\ sha.pc = "initialized" =>
          \A r \in 1..Len(sha.runs) :
              sha.runs[r].fn = <<"initialize_with_iv", 1>> =>
                  (sha.block = 1 => sha.runs[r].state = StateValues(sha.new_state))
    /\ sha.pc = "compressed" =>
          \A r \in 1..Len(sha.runs) :
              sha.runs[r].fn = <<"compress", sha.block>> =>
                  sha.runs[r].state = StateValues(sha.state)

\* C30 witness: the closure of select ran twice on an array of eight and the
\* chip returned; both invocations assigned seven rows.
C30_Witness ==
    /\ sel.pc = "done"
    /\ Len(sel.arr) = 8
    /\ Len(sel.runs) = 1
    /\ Len(sel.runs[1].rows) = 7
    /\ Len(sel.rows) = 7

\* C1 witness: a finished select on the largest array at an index whose
\* bits are not a palindrome and that is neither the first nor last element.
C1_Witness ==
    /\ sel.pc = "done"
    /\ Len(sel.index_bits) = MaxIndexBits
    /\ sel.index_bits[1] /\ ~sel.index_bits[MaxIndexBits]
    /\ sel.ret = sel.arr[BitsToIndex(sel.index_bits) + 1]

====
